---- MODULE Spec2Model ----
(***************************************************************************)
(* Verification model of the evacuation simulation engine                  *)
(* (ghiffaryr/EvacuationResearch, src/backend).                            *)
(*                                                                         *)
(* Part 1: the grid reinforcement-learning environment                     *)
(*         (models/training/rl_model.py, class EvacuationEnvironment).     *)
(* Part 2: the process environment and the solver objects that requests    *)
(*         share (api/resources/simulation.py and the simulate() entries), *)
(*         and the result envelope each call returns, native or mock.      *)
(* Part 3: the native path of the microscopic solver                       *)
(*         (models/microscopic/social_force.py).                           *)
(* Part 4: the native path of the mesoscopic solver                        *)
(*         (models/mesoscopic/boltzmann.py): the distribution f in units   *)
(*         of 1/1000000.                                                   *)
(* Part 5: the finite-difference solver of the macroscopic model           *)
(*         (models/macroscopic/pde_model.py): the density is a float that  *)
(*         can be a number (1/1000), an infinity or NaN; the fire field is *)
(*         in units of 1/1000000.                                          *)
(*                                                                         *)
(* Numbers.  Scenario coordinates and radii are whole metres in 0..20.     *)
(* Python floats are modelled as follows:                                  *)
(*   - quantities that the code computes with sqrt (hazard values, forces) *)
(*     are fixed-point integers in units of 1/1000 ("milli"), truncated    *)
(*     toward zero;                                                        *)
(*   - quantities that are rational in the inputs (Gini coefficient,       *)
(*     fairness reward, reward) are exact rationals <<num, den>>, den > 0. *)
(***************************************************************************)
EXTENDS Integers, Sequences, FiniteSets, TLC

VARIABLES
    scenario,           \* constructor arguments: grid_size, num_agents, walls, exits, hazards
    grid,               \* self.grid: [agents, walls, hazards], each a function of the cell <<x, y>>
    agent_positions,    \* self.agent_positions: 1..num_agents -> <<x, y>>
    agent_status,       \* self.agent_status: 1..num_agents -> {0, 1}
    previous_evacuated, \* self._previous_evacuated
    time_step,          \* self.time_step
    reward,             \* reward returned by the last step() (rational), <<0, 1>> after reset()
    done,               \* done returned by the last step(); FALSE after reset()
    lastOp,             \* the last call made on the environment: "reset" or "step"
    calledIn,           \* the phase the environment was in when that call was made
    \* -- the process and the solver objects of SimulationResource
    DEV_MODE,           \* os.environ.get('DEV_MODE'): "unset", "mock" or "true"
    initial_DEV_MODE,   \* its value before the first call
    panic_factor,       \* SocialForceModel.panic_factor of self.microscopic_model (milli)
    lastCall,           \* the last request or solver call, with its arguments
    lastResult,         \* what that call did: status, path taken, panic factor applied
    envelope,           \* the result dictionary that call returned
    \* -- the native path of SocialForceModel.simulate (locals of the call)
    simArgs,            \* num_agents, time_steps, building_layout (walls, exits), hazards
    positions,          \* positions: 1..num_agents -> <<x, y>> (mm)
    velocities,         \* velocities: 1..num_agents -> <<vx, vy>> (mm/s)
    agent_goals,        \* agent_goals: 1..num_agents -> exit position (mm)
    loop_t,             \* the loop variable t of "for t in range(time_steps)"
    position_history,   \* position_history[1..t]
    velocity_history,   \* velocity_history[1..t]
    safe_agents,        \* safe_agents[1..t]
    evacuated,          \* the agents that have been marked reached_exit in this call
    microPc,            \* "idle", "loop" (inside simulate) or "returned"
    \* -- the native path of BoltzmannModel.simulate (locals of the call)
    mesoArgs,           \* grid_size, time_steps, building_layout, hazards
    f_dist,             \* f: 0..7 -> (cell <<x, y>> -> value), in 1/1000000
    meso_t,             \* the loop variable t
    density_history,    \* density_history[1..t]
    velocity_x_history, \* velocity_x_history[1..t] (1/1000)
    velocity_y_history, \* velocity_y_history[1..t] (1/1000)
    total_occupancy,    \* total_occupancy[1..t]
    mesoPc,             \* "idle", "loop" or "returned"
    \* -- MacroscopicModel._solve_pde_finite_difference (locals of the call)
    macroArgs,          \* grid_resolution, time_steps, building_layout, hazards
    macro_dx,           \* the local dx, a fraction <<numerator, denominator>>
    wall_mask,          \* the cells where wall_mask is True
    exit_field,         \* the cells where exit_field is 1.0
    macro_density,      \* density: cell -> float value (1/1000)
    fire_field,         \* fire_field: cell -> value (1/1000000)
    macro_velocity,     \* <<velocity_x, velocity_y>>: cell -> value (1/1000)
    macro_t,            \* the loop variable t
    macro_density_history,  \* density_history[1..t]
    macro_velocity_history, \* velocity_x_history and velocity_y_history [1..t]
    fire_history,       \* fire_history[1..t]
    evacuated_count,    \* evacuated_count[1..t]
    macroPc             \* "idle", "loop" or "returned"

rlVars == <<scenario, grid, agent_positions, agent_status, previous_evacuated,
            time_step, reward, done, lastOp, calledIn>>

svcVars == <<DEV_MODE, initial_DEV_MODE, panic_factor, lastCall, lastResult, envelope>>

microVars == <<simArgs, positions, velocities, agent_goals, loop_t, position_history,
               velocity_history, safe_agents, evacuated, microPc>>

mesoVars == <<mesoArgs, f_dist, meso_t, density_history, velocity_x_history,
              velocity_y_history, total_occupancy, mesoPc>>

macroVars == <<macroArgs, macro_dx, wall_mask, exit_field, macro_density, fire_field,
               macro_velocity, macro_t, macro_density_history, macro_velocity_history,
               fire_history, evacuated_count, macroPc>>

\* The state of the two field solvers
fieldVars == <<mesoVars, macroVars>>

vars == <<rlVars, svcVars, microVars, fieldVars>>

----------------------------------------------------------------------------
(* Arithmetic helpers *)

Abs(a) == IF a < 0 THEN -a ELSE a

Sign(a) == IF a > 0 THEN 1 ELSE IF a < 0 THEN -1 ELSE 0

Max(a, b) == IF a >= b THEN a ELSE b

Min(a, b) == IF a <= b THEN a ELSE b

\* Division truncating toward zero (a float quotient cut to the fixed-point grid).
TDiv(a, b) == Sign(a) * Sign(b) * (Abs(a) \div Abs(b))

RECURSIVE ISqrtSearch(_, _, _)
ISqrtSearch(n, lo, hi) ==
    IF lo >= hi THEN lo
    ELSE LET mid == (lo + hi + 1) \div 2
         IN IF mid * mid <= n THEN ISqrtSearch(n, mid, hi)
            ELSE ISqrtSearch(n, lo, mid - 1)

\* floor(sqrt(n)) for 0 <= n < 2^31
ISqrt(n) == ISqrtSearch(n, 0, 46340)

\* np.sqrt(d2) in milli units, for a small integer d2
SqrtMilli(d2) == ISqrt(d2 * 1000000)

\* exp(-k) for k = 0..14, in 1/1000000
ExpInt ==
    <<1000000, 367879, 135335, 49787, 18316, 6738, 2479, 912, 335, 123, 45, 17, 6, 2, 1>>

\* exp(-j/10) for j = 0..9, in 1/1000
ExpTenth == <<1000, 905, 819, 741, 670, 607, 549, 497, 449, 407>>

\* exp(-x) (torch.exp, np.exp) for x >= 0 in 1/1000, result in 1/1000:
\* exp(-k) * exp(-j/10) * (1 - r + r^2/2) with x = k + j/10 + r, r < 1/10
ExpNeg(x) ==
    LET k == x \div 1000
        j == (x % 1000) \div 100
        r == x % 100
    IN IF k >= 15 THEN 0
       ELSE (((ExpInt[k + 1] * ExpTenth[j + 1]) \div 1000)
                * (1000 - r + (r * r) \div 2000)) \div 1000000

RECURSIVE SumSeq(_)
SumSeq(s) == IF s = <<>> THEN 0 ELSE Head(s) + SumSeq(Tail(s))

RECURSIVE GCD(_, _)
GCD(a, b) == IF b = 0 THEN a ELSE GCD(b, a % b)

\* Exact rationals <<num, den>> with den > 0, kept in lowest terms
RNorm(n, d) ==
    LET g == GCD(Abs(n), Abs(d))
    IN <<Sign(d) * (n \div g), Abs(d) \div g>>

RAdd(a, b) == RNorm(a[1] * b[2] + b[1] * a[2], a[2] * b[2])

RSub(a, b) == RNorm(a[1] * b[2] - b[1] * a[2], a[2] * b[2])

REq(a, b) == a[1] * b[2] = b[1] * a[2]

RLess(a, b) == a[1] * b[2] < b[1] * a[2]

----------------------------------------------------------------------------
(* Scenarios (constructor arguments of EvacuationEnvironment).             *)
(* A wall is <<start, end>>, an exit is <<x, y>>, a hazard is a record     *)
(* [position, radius, intensity]; intensity is in milli units.             *)

\* 4x4 grid, two agents, one wall, two exits, one hazard of intensity 1.5.
ScenarioA ==
    [grid_size |-> 4, num_agents |-> 2,
     walls |-> << <<<<10, 0>>, <<10, 5>>>> >>,
     exits |-> << <<0, 0>>, <<15, 15>> >>,
     hazards |-> << [position |-> <<5, 15>>, radius |-> 10, intensity |-> 1500] >>]

\* 5x5 grid, one agent, no walls, one exit on the far boundary x = 20,
\* two overlapping hazards of intensity 0.8.
ScenarioB ==
    [grid_size |-> 5, num_agents |-> 1,
     walls |-> <<>>,
     exits |-> << <<20, 10>> >>,
     hazards |-> << [position |-> <<8, 8>>, radius |-> 8, intensity |-> 800],
                    [position |-> <<12, 8>>, radius |-> 8, intensity |-> 800] >>]

\* 3x3 grid, one agent, one diagonal wall, no exits and no hazards.
ScenarioC ==
    [grid_size |-> 3, num_agents |-> 1,
     walls |-> << <<<<0, 14>>, <<7, 19>>>> >>,
     exits |-> <<>>,
     hazards |-> <<>>]

\* 3x3 grid, one agent, one exit in a corner, nothing else.
ScenarioL ==
    [grid_size |-> 3, num_agents |-> 1,
     walls |-> <<>>,
     exits |-> << <<0, 0>> >>,
     hazards |-> <<>>]

Scenarios == {ScenarioA, ScenarioB, ScenarioC}

----------------------------------------------------------------------------
(* EvacuationEnvironment *)

Cells(N) == (0 .. N - 1) \X (0 .. N - 1)

Agents(sc) == 1 .. sc.num_agents

\* int(coord * self.grid_size / 20)
ToGrid(coord, N) == (coord * N) \div 20

ExitCell(sc, e) == <<ToGrid(e[1], sc.grid_size), ToGrid(e[2], sc.grid_size)>>

RECURSIVE DrawLoop(_, _, _, _, _, _, _, _, _, _)
DrawLoop(x0, y0, x1, y1, dx, dy, sx, sy, err, N) ==
    LET here == IF 0 <= x0 /\ x0 < N /\ 0 <= y0 /\ y0 < N THEN {<<x0, y0>>} ELSE {}
    IN IF x0 = x1 /\ y0 = y1 THEN here
       ELSE LET e2   == 2 * err
                mx   == e2 > -dy
                err1 == IF mx THEN err - dy ELSE err
                nx   == IF mx THEN x0 + sx ELSE x0
                my   == e2 < dx
                err2 == IF my THEN err1 + dx ELSE err1
                ny   == IF my THEN y0 + sy ELSE y0
            IN here \cup DrawLoop(nx, ny, x1, y1, dx, dy, sx, sy, err2, N)

\* The cells a wall segment marks (Bresenham), clipped to the grid.
_draw_line(x0, y0, x1, y1, N) ==
    LET dx == Abs(x1 - x0)
        dy == Abs(y1 - y0)
        sx == IF x0 < x1 THEN 1 ELSE -1
        sy == IF y0 < y1 THEN 1 ELSE -1
    IN DrawLoop(x0, y0, x1, y1, dx, dy, sx, sy, dx - dy, N)

WallCells(sc) ==
    UNION { _draw_line(ToGrid(sc.walls[i][1][1], sc.grid_size),
                       ToGrid(sc.walls[i][1][2], sc.grid_size),
                       ToGrid(sc.walls[i][2][1], sc.grid_size),
                       ToGrid(sc.walls[i][2][2], sc.grid_size),
                       sc.grid_size) : i \in DOMAIN sc.walls }

\* What one hazard adds to grid[y, x, 2] (milli).
HazardAt(sc, h, c) ==
    LET N  == sc.grid_size
        cx == ToGrid(h.position[1], N)
        cy == ToGrid(h.position[2], N)
        r  == (h.radius * N) \div 20
        d2 == (c[1] - cx) * (c[1] - cx) + (c[2] - cy) * (c[2] - cy)
    IN IF d2 < r * r
       THEN TDiv(h.intensity * (1000 - TDiv(SqrtMilli(d2), r)), 1000)
       ELSE 0

_build_grid(sc) ==
    LET W == WallCells(sc)
    IN [agents  |-> [c \in Cells(sc.grid_size) |-> 0],
        walls   |-> [c \in Cells(sc.grid_size) |-> IF c \in W THEN 1 ELSE 0],
        hazards |-> [c \in Cells(sc.grid_size) |->
                        SumSeq([i \in DOMAIN sc.hazards |-> HazardAt(sc, sc.hazards[i], c)])]]

\* A faulty variant of AgentChannel: the evacuated agents are counted too.
AgentChannel_Everyone(sc, pos, who) ==
    [c \in Cells(sc.grid_size) |-> Cardinality({i \in DOMAIN pos : pos[i] = c})]

\* The agent channel: how many of the agents in `who` stand on each cell.
AgentChannel(sc, pos, who) ==
    [c \in Cells(sc.grid_size) |-> Cardinality({i \in who : pos[i] = c})]

\* A faulty variant of ValidCell: the hazard test is dropped.
ValidCell_WallsOnly(g, c) == g.walls[c] = 0

\* A cell reset() accepts: no wall, hazard below 0.5.
ValidCell(g, c) == g.walls[c] = 0 /\ g.hazards[c] < 500

ValidCells(sc, g) == {c \in Cells(sc.grid_size) : ValidCell(g, c)}

Evacuated(st) == Cardinality({i \in DOMAIN st : st[i] = 1})

\* The phases of the environment: "fresh" is the object under construction.
Phase == IF done THEN "terminal" ELSE IF lastOp = "reset" THEN "ready" ELSE "in_episode"

\* reset(): the rejection loop ends with every agent on a valid cell; it
\* never returns when there is no valid cell.
reset ==
    /\ \E placement \in [Agents(scenario) -> ValidCells(scenario, grid)] :
         /\ agent_positions' = placement
         /\ grid' = [grid EXCEPT !.agents =
                        AgentChannel(scenario, placement, Agents(scenario))]
    /\ agent_status' = [i \in Agents(scenario) |-> 0]
    /\ previous_evacuated' = 0
    /\ time_step' = 0
    /\ reward' = <<0, 1>>
    /\ done' = FALSE
    /\ lastOp' = "reset"
    /\ calledIn' = Phase
    /\ UNCHANGED <<scenario, svcVars, microVars, fieldVars>>

\* __init__: build the grid, then reset().
RLInit(S) ==
    /\ scenario \in S
    /\ \E built \in {_build_grid(scenario)} :
       \E placement \in [Agents(scenario) -> ValidCells(scenario, built)] :
         /\ agent_positions = placement
         /\ grid = [built EXCEPT !.agents =
                        AgentChannel(scenario, placement, Agents(scenario))]
    /\ agent_status = [i \in Agents(scenario) |-> 0]
    /\ previous_evacuated = 0
    /\ time_step = 0
    /\ reward = <<0, 1>>
    /\ done = FALSE
    /\ lastOp = "reset"
    /\ calledIn = "fresh"

RMul(a, b) == RNorm(a[1] * b[1], a[2] * b[2])

\* a / b for b # 0
RDiv(a, b) == RNorm(a[1] * b[2], a[2] * b[1])

RECURSIVE RSum(_)
RSum(s) == IF s = <<>> THEN <<0, 1>> ELSE RAdd(Head(s), RSum(Tail(s)))

\* The eight movement recommendations, indexed by action + 1.
directions ==
    << <<0, -1>>, <<1, -1>>, <<1, 0>>, <<1, 1>>, <<0, 1>>, <<-1, 1>>, <<-1, 0>>, <<-1, -1>> >>

Actions == 0 .. 7

Dist2(p, q) == (p[1] - q[1]) * (p[1] - q[1]) + (p[2] - q[2]) * (p[2] - q[2])

\* The loop "if dist < min_dist": the first exit at the least distance; 0 when
\* there is no exit.  Distances are compared by their squares.
RECURSIVE ClosestFrom(_, _, _, _)
ClosestFrom(sc, p, j, best) ==
    IF j > Len(sc.exits) THEN best
    ELSE IF best = 0 \/ Dist2(p, ExitCell(sc, sc.exits[j])) < Dist2(p, ExitCell(sc, sc.exits[best]))
         THEN ClosestFrom(sc, p, j + 1, j)
         ELSE ClosestFrom(sc, p, j + 1, best)

ClosestExit(sc, p) == ClosestFrom(sc, p, 1, 0)

\* Exit attraction (ex - x) / (dist * 5), dist = max(min_dist, 0.1), in milli.
ExitForce(sc, p) ==
    LET j == ClosestExit(sc, p)
    IN IF j = 0 THEN <<0, 0>>
       ELSE LET e    == ExitCell(sc, sc.exits[j])
                dist == Max(SqrtMilli(Dist2(p, e)), 100)
            IN <<TDiv((e[1] - p[1]) * 1000000, dist * 5),
                 TDiv((e[2] - p[2]) * 1000000, dist * 5)>>

\* Hazard repulsion -(hx - x) / (dist * 3) of one hazard within
\* radius * grid_size / 10 of the agent, in milli.
HazardForce(sc, h, p) ==
    LET N  == sc.grid_size
        hc == <<ToGrid(h.position[1], N), ToGrid(h.position[2], N)>>
        d2 == Dist2(p, hc)
    IN IF d2 * 100 < (h.radius * N) * (h.radius * N)
       THEN LET dist == Max(SqrtMilli(d2), 100)
            IN <<TDiv((p[1] - hc[1]) * 1000000, dist * 3),
                 TDiv((p[2] - hc[2]) * 1000000, dist * 3)>>
       ELSE <<0, 0>>

Force(sc, p, action) ==
    LET d == directions[action + 1]
        e == ExitForce(sc, p)
    IN <<d[1] * 1000 + e[1] + SumSeq([i \in DOMAIN sc.hazards |-> HazardForce(sc, sc.hazards[i], p)[1]]),
         d[2] * 1000 + e[2] + SumSeq([i \in DOMAIN sc.hazards |-> HazardForce(sc, sc.hazards[i], p)[2]])>>

\* round(f / |f|) for the component fa of the force <<fa, fb>>: it is +-1
\* exactly when |fa| / |f| > 1/2, that is 3 * fa^2 > fb^2 (a zero force is
\* not normalised and rounds to 0).
RoundUnit(fa, fb) == IF 3 * fa * fa > fb * fb THEN Sign(fa) ELSE 0

Clamp(v, N) == Max(0, Min(v, N - 1))

\* The destination cell of an agent at p, clamped to the grid.
Destination(sc, p, action) ==
    LET f == Force(sc, p, action)
    IN <<Clamp(p[1] + RoundUnit(f[1], f[2]), sc.grid_size),
         Clamp(p[2] + RoundUnit(f[2], f[1]), sc.grid_size)>>

\* abs(new_x - ex) <= 1 and abs(new_y - ey) <= 1 for some exit
NearExit(sc, c) ==
    \E j \in DOMAIN sc.exits :
        /\ Abs(c[1] - ExitCell(sc, sc.exits[j])[1]) <= 1
        /\ Abs(c[2] - ExitCell(sc, sc.exits[j])[2]) <= 1

\* A faulty variant of MoveAgent: the status is recomputed for every agent,
\* evacuated or not.
MoveAgent_Reactivate(sc, g, p, st, action) ==
    LET new == Destination(sc, p, action)
    IN IF g.walls[new] = 0
       THEN <<new, IF NearExit(sc, new) THEN 1 ELSE 0>>
       ELSE <<p, st>>

\* A faulty variant of MoveAgent: the wall check is dropped.
MoveAgent_ThroughWalls(sc, g, p, st, action) ==
    IF st = 1 THEN <<p, st>>
    ELSE LET new == Destination(sc, p, action)
         IN <<new, IF NearExit(sc, new) THEN 1 ELSE st>>

\* One iteration of the loop over the agents: <<position, status>> afterwards.
MoveAgent(sc, g, p, st, action) ==
    IF st = 1 THEN <<p, st>>
    ELSE LET new == Destination(sc, p, action)
         IN IF g.walls[new] = 0
            THEN <<new, IF NearExit(sc, new) THEN 1 ELSE st>>
            ELSE <<p, st>>

\* exit_usage before normalisation: evacuated agents per closest exit.
exit_usage(sc, pos, st) ==
    [j \in DOMAIN sc.exits |->
        Cardinality({i \in DOMAIN st : st[i] = 1 /\ ClosestExit(sc, pos[i]) = j})]

\* A faulty variant of _calculate_gini: the array is not sorted.
_calculate_gini_unsorted(array) ==
    IF \A i \in DOMAIN array : array[i][1] = 0 THEN <<0, 1>>
    ELSE LET n == Len(array)
         IN RDiv(RSum([i \in 1 .. n |-> RMul(<<2 * i - n - 1, 1>>, array[i])]),
                 RMul(<<n, 1>>, RSum(array)))

\* _calculate_gini on a sequence of rationals
_calculate_gini(array) ==
    IF \A i \in DOMAIN array : array[i][1] = 0 THEN <<0, 1>>
    ELSE LET sorted == SortSeq(array, LAMBDA a, b : RLess(a, b))
             n      == Len(array)
         IN RDiv(RSum([i \in 1 .. n |-> RMul(<<2 * i - n - 1, 1>>, sorted[i])]),
                 RMul(<<n, 1>>, RSum(sorted)))

\* max(0, 0.1 - gini) * 5.0
FairnessOf(gini) ==
    LET d == RSub(<<1, 10>>, gini)
    IN IF d[1] > 0 THEN RMul(d, <<5, 1>>) ELSE <<0, 1>>

\* The fairness-based reward component (0 when the block is skipped).
fairness_reward(sc, pos, st) ==
    IF sc.exits # <<>> /\ Evacuated(st) > 0
    THEN LET usage == exit_usage(sc, pos, st)
             total == SumSeq(usage)
         IN IF total > 0
            THEN FairnessOf(_calculate_gini([j \in DOMAIN usage |-> <<usage[j], total>>]))
            ELSE <<0, 1>>
    ELSE <<0, 1>>

\* hazard_penalty: hazard intensity at the cell of every active agent (milli)
hazard_penalty(g, pos, st) ==
    SumSeq([i \in DOMAIN st |-> IF st[i] = 0 THEN g.hazards[pos[i]] ELSE 0])

\* self.time_step >= 1000
StepLimit == 1000

\* done, computed before self.time_step is incremented
DoneFlag(sc, st, t) == Evacuated(st) = sc.num_agents \/ t >= StepLimit

\* step(action).  The fields are assigned in the order of the code; what is
\* computed from the moved agents reads the primed fields.
step(action) ==
    /\ agent_positions' = [i \in Agents(scenario) |->
          MoveAgent(scenario, grid, agent_positions[i], agent_status[i], action)[1]]
    /\ agent_status' = [i \in Agents(scenario) |->
          MoveAgent(scenario, grid, agent_positions[i], agent_status[i], action)[2]]
    /\ grid' = [grid EXCEPT !.agents =
                   AgentChannel(scenario, agent_positions',
                                {i \in Agents(scenario) : agent_status'[i] = 0})]
    /\ previous_evacuated' = Evacuated(agent_status')
    /\ reward' = RAdd(RSub(<<(previous_evacuated' - previous_evacuated) * 10, 1>>,
                           <<hazard_penalty(grid, agent_positions', agent_status') * 2, 1000>>),
                      fairness_reward(scenario, agent_positions', agent_status'))
    /\ done' = DoneFlag(scenario, agent_status', time_step)
    /\ time_step' = time_step + 1
    /\ lastOp' = "step"
    /\ calledIn' = Phase
    /\ UNCHANGED <<scenario, svcVars, microVars, fieldVars>>

\* _get_state(): the four channels of the observation, in milli.
_get_state(sc, g) ==
    LET E == {ExitCell(sc, sc.exits[j]) : j \in DOMAIN sc.exits}
    IN [agents  |-> [c \in Cells(sc.grid_size) |-> Max(0, Min(g.agents[c] * 200, 1000))],
        walls   |-> [c \in Cells(sc.grid_size) |-> g.walls[c] * 1000],
        hazards |-> [c \in Cells(sc.grid_size) |-> g.hazards[c]],
        exits   |-> [c \in Cells(sc.grid_size) |-> IF c \in E THEN 1000 ELSE 0]]

----------------------------------------------------------------------------
(* Part 2: the process environment and the solver objects shared by the    *)
(* requests (api/resources/simulation.py, the simulate() entry of each     *)
(* solver, EvacuationRL.train).                                            *)

NoCall == [kind |-> "none"]

\* SocialForceModel.__init__: self.panic_factor = 1.2
DefaultPanic == 1200

\* No request has been served (the state the other parts leave untouched).
SvcIdle ==
    /\ DEV_MODE = "unset"
    /\ initial_DEV_MODE = "unset"
    /\ panic_factor = DefaultPanic
    /\ lastCall = NoCall
    /\ lastResult = NoCall
    /\ envelope = NoCall

\* panic_factor as a request or call gives it: the key is absent, or it is
\* None (JSON null), or it is a value (milli)
Absent == [given |-> "absent"]

None == [given |-> "null"]

Value(v) == [given |-> "value", v |-> v]

PanicArgs == {Absent, None, Value(1000), Value(1500)}

Layouts == {"ok", "no_exits", "no_walls"}

\* The mock test every solver entry makes: os.environ.get('DEV_MODE') == 'mock'
MockPath(env) == IF env = "mock" THEN "mock" ELSE "native"

Outcome(status, path, applied, env, pf) ==
    [status |-> status, path |-> path, panic |-> applied, env |-> env, pf |-> pf]

\* SocialForceModel.simulate(panic_factor = arg), up to the choice of path:
\* the override is stored in the object, then the environment is read.
micro_simulate(env, pf, arg) ==
    LET pf1 == IF arg = None THEN pf ELSE arg.v
    IN Outcome("ok", MockPath(env), pf1, env, pf1)

\* BoltzmannModel.simulate and MacroscopicModel.simulate, up to the choice of path
grid_simulate(env, pf) == Outcome("ok", MockPath(env), 0, env, pf)

\* EvacuationRL.train(use_mock)
rl_train(env, pf, use_mock) ==
    Outcome("ok", IF use_mock \/ env = "mock" THEN "mock" ELSE "native", 0, env, pf)

Rejected(env, pf) == Outcome("error", "none", 0, env, pf)

----------------------------------------------------------------------------
(* The result envelopes.  An envelope is the dictionary a call returns:    *)
(* slots are its keys, dims the dimensions of its tensors (positions for   *)
(* the microscopic solver, density for the field solvers, rewards for      *)
(* training), reported the sizes it carries.  A mock envelope holds in     *)
(* addition the cumulative series of evacuated people (1/1000 person), the *)
(* initial mass of the run (1/1000 person) and the first random value the  *)
(* generator drew; the tensors of a native run are the histories of        *)
(* Parts 3 to 5.                                                           *)

\* The sizes that are requested
MockGrids == {4, 8, 210}

MockSteps == {2, 5, 160}

MockAgents == {2, 10}

TrainEpisodes == {1, 2}

\* The values of one draw of np.random.rand() or random.random() that are
\* followed (1/1000)
RandomDraws == {0, 500, 999}

\* np.sqrt(d2) in milli units, for d2 up to 200 * 200
SqrtMilliWide(d2) == IF d2 <= 2147 THEN SqrtMilli(d2) ELSE 10 * ISqrt(d2 * 10000)

\* The value given to density[0, i, j] at squared distance d2 < (N // 4)^2
\* from the centre: 1.0 * (1 - dist / radius) or np.exp(-dist / (N / 8))
HumpValue(shape, d2, N) ==
    IF shape = "cone" THEN 1000 - SqrtMilliWide(d2) \div (N \div 4)
    ELSE ExpNeg((8 * SqrtMilliWide(d2)) \div N)

\* density[0, i, j]
HumpCell(shape, N, i, j) ==
    LET c == N \div 2
        d2 == (i - c) * (i - c) + (j - c) * (j - c)
    IN IF d2 < (N \div 4) * (N \div 4) THEN HumpValue(shape, d2, N) ELSE 0

\* The sum of density[0, i, lo..hi]
RECURSIVE HumpRowSum(_, _, _, _, _)
HumpRowSum(shape, N, i, lo, hi) ==
    IF lo > hi THEN 0
    ELSE IF lo = hi THEN HumpCell(shape, N, i, lo)
    ELSE LET mid == (lo + hi) \div 2
         IN HumpRowSum(shape, N, i, lo, mid) + HumpRowSum(shape, N, i, mid + 1, hi)

\* The sum of density[0, lo..hi, :]
RECURSIVE HumpSum(_, _, _, _)
HumpSum(shape, N, lo, hi) ==
    IF lo > hi THEN 0
    ELSE IF lo = hi THEN HumpRowSum(shape, N, lo, 0, N - 1)
    ELSE LET mid == (lo + hi) \div 2
         IN HumpSum(shape, N, lo, mid) + HumpSum(shape, N, mid + 1, hi)

\* np.sum(density[0]) after the loops "Initial density ..." of a generator
InitialMass(shape, N) == HumpSum(shape, N, 0, N - 1)

\* The same, tabulated for the grids the generators allocate
InitialMassOf ==
    [shape \in {"cone", "exp"} |->
        [N \in {Min(g, 200) : g \in MockGrids} \cup {Min(g, 150) : g \in MockGrids} |->
            InitialMass(shape, N)]]

\* x ** 0.8 in 1/10000 as the product of the roots x^(1/2), x^(1/4),
\* x^(1/32), x^(1/64), ... (0.8 = 0.110011001100... in binary); s is
\* x^(1/2^k) in 1/10000, every root and product cut to the grid
RECURSIVE Pow08From(_, _, _)
Pow08From(s, k, acc) ==
    IF k > 18 THEN acc
    ELSE Pow08From(ISqrt(s * 10000), k + 1,
                   IF k % 4 \in {1, 2} THEN (acc * s) \div 10000 ELSE acc)

\* (t / time_steps) ** 0.8 in 1/10000, for 0 < t < time_steps
Pow08(t, T) == Pow08From(ISqrt(((t * 10000000) \div T) * 10), 1, 10000)

\* The same, tabulated for the numbers of steps MacroscopicModel._generate_mock_results runs
Pow08Of ==
    [T \in {Min(n, 120) : n \in MockSteps} |-> [t \in 1..(T - 1) |-> Pow08(t, T)]]

ErrorEnvelope == [status |-> "error"]

\* SocialForceModel.simulate, the dictionary of the native path
micro_native_results(n, T) ==
    [status |-> "ok", mock_data |-> FALSE,
     slots |-> {"positions", "velocities", "safe_agents", "panic_factor", "time_steps", "dt"},
     dims |-> <<T, n, 2>>,
     reported |-> [time_steps |-> T]]

\* SocialForceModel._generate_mock_results: positions = np.random.rand(...) * 20,
\* safe_agents[t] = int(num_agents * (t / time_steps) ** 2 * 0.9)
SocialForceModel_generate_mock_results(n, T, u) ==
    [status |-> "ok", mock_data |-> TRUE,
     slots |-> {"positions", "velocities", "safe_agents", "panic_factor", "time_steps", "dt",
                "mock_data"},
     dims |-> <<T, n, 2>>,
     reported |-> [time_steps |-> T],
     evacuated |-> [k \in 1..T |-> 1000 * ((9 * n * (k - 1) * (k - 1)) \div (10 * T * T))],
     mass |-> 1000 * n,
     sample |-> 20 * u]

\* BoltzmannModel.simulate, the dictionary of the native path
meso_native_results(N, T) ==
    [status |-> "ok", mock_data |-> FALSE,
     slots |-> {"density", "velocity_x", "velocity_y", "total_occupancy", "grid_size",
                "time_steps", "dt"},
     dims |-> <<T, N, N>>,
     reported |-> [grid |-> N, time_steps |-> T]]

\* BoltzmannModel._generate_mock_results
BoltzmannModel_generate_mock_results(N, T) ==
    [status |-> "ok", mock_data |-> TRUE,
     slots |-> {"density", "velocity_x", "velocity_y", "total_occupancy", "grid_size",
                "time_steps", "mock_data"},
     dims |-> <<T, N, N>>,
     reported |-> [grid |-> N, time_steps |-> T]]

\* MacroscopicModel._solve_pde_finite_difference, the dictionary it returns
macro_native_results(N, T) ==
    [status |-> "ok", mock_data |-> FALSE,
     slots |-> {"density", "velocity_x", "velocity_y", "fire", "evacuated_count",
                "grid_resolution", "time_steps", "dt"},
     dims |-> <<T, N, N>>,
     reported |-> [grid |-> N, time_steps |-> T]]

\* MacroscopicModel._generate_mock_results: the sizes are capped to 150 and
\* 120, evacuated_count[t] = 500 * (t / time_steps) ** 0.8 for t >= 1
MacroscopicModel_generate_mock_results(grid_resolution, time_steps) ==
    LET N == Min(grid_resolution, 150)
        T == Min(time_steps, 120)
    IN [status |-> "ok", mock_data |-> TRUE,
        slots |-> {"density", "velocity_x", "velocity_y", "fire", "evacuated_count",
                   "grid_resolution", "time_steps", "dt", "mock_data"},
        dims |-> <<T, N, N>>,
        reported |-> [grid |-> N, time_steps |-> T],
        evacuated |-> [k \in 1..T |-> IF k = 1 THEN 0 ELSE 50 * Pow08Of[T][k - 1]],
        mass |-> InitialMassOf["exp"][N],
        sample |-> 0]

\* SimulationResource._generate_mock_macroscopic_result (time_steps >= 2): the
\* sizes are capped to 200 and 150; after the loop, with t = time_steps - 1,
\* evacuated_count[t] = min(500, 10 + 490 * (t / T) * (1.5 - 0.5 * t / T));
\* scaled_rate is 490 * evac_rate in 1/1000
_generate_mock_macroscopic_result(grid_resolution, time_steps) ==
    LET N == Min(grid_resolution, 200)
        T == Min(time_steps, 150)
        t == T - 1
        q == 49 * t * (3 * T - t)
        den == 2 * T * T
        scaled_rate == 10000 * (q \div den) + (10000 * (q % den)) \div den
    IN [status |-> "ok", mock_data |-> TRUE,
        slots |-> {"density", "velocity_x", "velocity_y", "fire", "evacuated_count",
                   "grid_resolution", "time_steps", "dt", "mock_data"},
        dims |-> <<T, N, N>>,
        reported |-> [grid |-> N, time_steps |-> T],
        evacuated |-> [k \in 1..T |-> IF k = T THEN Min(500000, 10000 + scaled_rate) ELSE 0],
        mass |-> InitialMassOf["cone"][N],
        sample |-> 0]

\* EvacuationRL(grid_size=50, num_agents=100).train, the native path
train_native_results(episodes) ==
    [status |-> "ok", mock_data |-> FALSE,
     slots |-> {"rewards", "evacuation_times", "gini_history", "losses"},
     dims |-> <<episodes>>,
     reported |-> [episodes |-> episodes]]

\* EvacuationRL(grid_size=50, num_agents=100).train, the mock branch:
\* rewards[0] = 5.0 * 1 * 1.0 * (0.9 + 0.2 * random.random())
train_mock_results(episodes, u) ==
    [status |-> "ok", mock_data |-> TRUE,
     slots |-> {"rewards", "evacuation_times", "gini_history", "losses", "mock_data"},
     dims |-> <<episodes>>,
     reported |-> [episodes |-> episodes],
     sample |-> 4500 + u]

\* The dictionary the native path of the solver of a call returns for the
\* sizes of the call
NativeResults(call) ==
    CASE call.kind \in {"on_post_microscopic", "SocialForceModel_simulate"} ->
            micro_native_results(call.num_agents, call.time_steps)
      [] call.kind \in {"on_post_mesoscopic", "BoltzmannModel_simulate"} ->
            meso_native_results(call.grid, call.time_steps)
      [] call.kind \in {"on_post_macroscopic", "MacroscopicModel_simulate"} ->
            macro_native_results(call.grid, call.time_steps)
      [] call.kind = "EvacuationRL_train" -> train_native_results(call.episodes)

\* The dictionary a call returns when it has taken the path of outcome o and
\* its generator has drawn u
Results(call, o, u) ==
    IF o.status = "error" THEN ErrorEnvelope
    ELSE IF o.path = "native" THEN NativeResults(call)
    ELSE CASE call.kind \in {"on_post_microscopic", "SocialForceModel_simulate"} ->
                 SocialForceModel_generate_mock_results(call.num_agents, call.time_steps, u)
           [] call.kind \in {"on_post_mesoscopic", "BoltzmannModel_simulate"} ->
                 BoltzmannModel_generate_mock_results(call.grid, call.time_steps)
           [] call.kind = "MacroscopicModel_simulate" ->
                 MacroscopicModel_generate_mock_results(call.grid, call.time_steps)
           [] call.kind = "on_post_macroscopic" ->
                 _generate_mock_macroscopic_result(call.grid, call.time_steps)
           [] call.kind = "EvacuationRL_train" -> train_mock_results(call.episodes, u)

----------------------------------------------------------------------------
\* SimulationResource.on_post_microscopic: exits and walls are required;
\* panic_factor = data.get('panic_factor', 1.2) is passed to simulate().
post_microscopic(env, pf, layout, panic) ==
    IF layout # "ok" THEN Rejected(env, pf)
    ELSE micro_simulate(env, pf, IF panic = Absent THEN Value(DefaultPanic) ELSE panic)

\* SimulationResource.on_post_mesoscopic: exits are required; then
\* os.environ['DEV_MODE'] = 'mock' and BoltzmannModel.simulate().
post_mesoscopic(env, pf, layout) ==
    IF layout = "no_exits" THEN Rejected(env, pf) ELSE grid_simulate("mock", pf)

\* SimulationResource.on_post_macroscopic: exits are required; the result is
\* always _generate_mock_macroscopic_result.
post_macroscopic(env, pf, layout) ==
    IF layout = "no_exits" THEN Rejected(env, pf) ELSE Outcome("ok", "mock", 0, env, pf)

\* What a call does in a process whose environment is env and whose
\* microscopic model holds pf: its status, the path taken, the panic factor
\* applied (0 when the solver has none), and the environment and the
\* microscopic model's panic factor it leaves behind.
Serve(env, pf, call) ==
    CASE call.kind = "on_post_microscopic" -> post_microscopic(env, pf, call.layout, call.panic)
      [] call.kind = "on_post_mesoscopic" -> post_mesoscopic(env, pf, call.layout)
      [] call.kind = "on_post_macroscopic" -> post_macroscopic(env, pf, call.layout)
      [] call.kind = "SocialForceModel_simulate" ->
            micro_simulate(env, pf, IF call.panic = Absent THEN None ELSE call.panic)
      [] call.kind = "BoltzmannModel_simulate" -> grid_simulate(env, pf)
      [] call.kind = "MacroscopicModel_simulate" -> grid_simulate(env, pf)
      [] call.kind = "EvacuationRL_train" -> rl_train(env, pf, call.use_mock)

\* The call returns, its generator having drawn u: its result is recorded,
\* and the environment and the microscopic model keep what the call left in
\* them.
Return(call, u) ==
    \E o \in {Serve(DEV_MODE, panic_factor, call)} :
        /\ lastResult' = [status |-> o.status, path |-> o.path, panic |-> o.panic]
        /\ envelope' = Results(call, o, u)
        /\ DEV_MODE' = o.env
        /\ panic_factor' = o.pf
        /\ UNCHANGED <<initial_DEV_MODE, rlVars, microVars, fieldVars>>

on_post_microscopic ==
    \E l \in Layouts, a \in PanicArgs, n \in MockAgents, T \in MockSteps, u \in RandomDraws :
        \E c \in {[kind |-> "on_post_microscopic", layout |-> l, panic |-> a, num_agents |-> n, time_steps |-> T]} :
            /\ lastCall' = c
            /\ Return(c, u)

on_post_mesoscopic ==
    \E l \in Layouts, N \in MockGrids, T \in MockSteps :
        \E c \in {[kind |-> "on_post_mesoscopic", layout |-> l, grid |-> N, time_steps |-> T]} :
            /\ lastCall' = c
            /\ Return(c, 0)

on_post_macroscopic ==
    \E l \in Layouts, N \in MockGrids, T \in MockSteps :
        \E c \in {[kind |-> "on_post_macroscopic", layout |-> l, grid |-> N, time_steps |-> T]} :
            /\ lastCall' = c
            /\ Return(c, 0)

\* simulate() called on the module's model object without a request; a call
\* that leaves panic_factor out passes the default None.
SocialForceModel_simulate ==
    \E a \in PanicArgs, n \in MockAgents, T \in MockSteps, u \in RandomDraws :
        \E c \in {[kind |-> "SocialForceModel_simulate", panic |-> a, num_agents |-> n, time_steps |-> T]} :
            /\ lastCall' = c
            /\ Return(c, u)

BoltzmannModel_simulate ==
    \E N \in MockGrids, T \in MockSteps :
        \E c \in {[kind |-> "BoltzmannModel_simulate", grid |-> N, time_steps |-> T]} :
            /\ lastCall' = c
            /\ Return(c, 0)

MacroscopicModel_simulate ==
    \E N \in MockGrids, T \in MockSteps :
        \E c \in {[kind |-> "MacroscopicModel_simulate", grid |-> N, time_steps |-> T]} :
            /\ lastCall' = c
            /\ Return(c, 0)

EvacuationRL_train ==
    \E m \in BOOLEAN, e \in TrainEpisodes, u \in RandomDraws :
        \E c \in {[kind |-> "EvacuationRL_train", use_mock |-> m, episodes |-> e]} :
            /\ lastCall' = c
            /\ Return(c, u)

\* The environment object of Part 1, constructed and not used.
RLIdle ==
    /\ RLInit({ScenarioC})
    /\ agent_positions[1] = <<0, 0>>

\* No simulate() call of the microscopic model is in progress.
MicroIdle ==
    /\ simArgs = NoCall
    /\ positions = <<>>
    /\ velocities = <<>>
    /\ agent_goals = <<>>
    /\ loop_t = 0
    /\ position_history = <<>>
    /\ velocity_history = <<>>
    /\ safe_agents = <<>>
    /\ evacuated = {}
    /\ microPc = "idle"

\* No simulate() call of the mesoscopic model is in progress.
MesoIdle ==
    /\ mesoArgs = NoCall
    /\ f_dist = <<>>
    /\ meso_t = 0
    /\ density_history = <<>>
    /\ velocity_x_history = <<>>
    /\ velocity_y_history = <<>>
    /\ total_occupancy = <<>>
    /\ mesoPc = "idle"

MacroIdle ==
    /\ macroArgs = NoCall
    /\ macro_dx = <<0, 1>>
    /\ wall_mask = {}
    /\ exit_field = {}
    /\ macro_density = <<>>
    /\ fire_field = <<>>
    /\ macro_velocity = <<>>
    /\ macro_t = 0
    /\ macro_density_history = <<>>
    /\ macro_velocity_history = <<>>
    /\ fire_history = <<>>
    /\ evacuated_count = <<>>
    /\ macroPc = "idle"

\* No call of a field solver is in progress.
FieldIdle == MesoIdle /\ MacroIdle

\* The process starts with DEV_MODE unset, "mock" or "true" (app.py reads
\* "true").
InitSvc ==
    /\ RLIdle
    /\ MicroIdle
    /\ FieldIdle
    /\ initial_DEV_MODE \in {"unset", "mock", "true"}
    /\ DEV_MODE = initial_DEV_MODE
    /\ panic_factor = DefaultPanic
    /\ lastCall = NoCall
    /\ lastResult = NoCall
    /\ envelope = NoCall

NextSvc ==
    \/ on_post_microscopic
    \/ on_post_mesoscopic
    \/ on_post_macroscopic
    \/ SocialForceModel_simulate
    \/ BoltzmannModel_simulate
    \/ MacroscopicModel_simulate
    \/ EvacuationRL_train

SpecSvc == InitSvc /\ [][NextSvc]_vars

----------------------------------------------------------------------------
(* Part 3: the native path of SocialForceModel.simulate                    *)
(* (models/microscopic/social_force.py), one action per loop iteration.    *)
(*                                                                         *)
(* Numbers.  Lengths are millimetres, velocities mm/s, forces (unit mass)  *)
(* mm/s^2, times milliseconds; unit vectors, exp() values, intensities and *)
(* the panic factor are in 1/1000.  Every quotient is truncated toward     *)
(* zero.                                                                   *)

\* self.desired_speed = 1.4 (m/s)
desired_speed == 1400

\* self.relaxation_time = 0.5 (s)
relaxation_time == 500

\* dt = 0.1 (s)
dt == 100

\* positions[reached_exit] = torch.tensor([-1000, -1000])
Sentinel == <<-1000000, -1000000>>

VAdd(a, b) == <<a[1] + b[1], a[2] + b[2]>>

VSub(a, b) == <<a[1] - b[1], a[2] - b[2]>>

\* a * n / d, componentwise
VScale(a, n, d) == <<TDiv(a[1] * n, d), TDiv(a[2] * n, d)>>

\* The power of ten that brings a component into the range whose squares
\* fit 32-bit integers.
ScaleOf(m) ==
    IF m <= 30000 THEN 1 ELSE IF m <= 300000 THEN 10 ELSE IF m <= 3000000 THEN 100 ELSE 1000

\* torch.norm of a 2-vector
Norm(a) ==
    LET k == ScaleOf(Max(Abs(a[1]), Abs(a[2])))
    IN k * ISqrt(TDiv(a[1], k) * TDiv(a[1], k) + TDiv(a[2], k) * TDiv(a[2], k))

\* _calculate_desired_force, for one agent
DesiredForce(pos, vel, goal) ==
    LET d == VSub(goal, pos)
        nd == IF Norm(d) > 10 THEN VScale(d, 1000, Norm(d)) ELSE <<0, 0>>
        desired_velocity == VScale(nd, desired_speed, 1000)
    IN VScale(VSub(desired_velocity, vel), 1000, relaxation_time)

_calculate_desired_force(pos, vel, goals) ==
    [i \in DOMAIN pos |-> DesiredForce(pos[i], vel[i], goals[i])]

\* The sum over the agents j..n of direction * magnitude, as seen from agent i
RECURSIVE RepulsionSum(_, _, _)
RepulsionSum(pos, i, j) ==
    IF j > Len(pos) THEN <<0, 0>>
    ELSE LET rel == VSub(pos[j], pos[i])
             distance == Norm(rel)
             term == IF distance > 0 /\ distance < 2000
                     THEN VScale(VScale(rel, 1000, distance),
                                 2 * ExpNeg(TDiv(distance * 1000, 800)), 1000)
                     ELSE <<0, 0>>
         IN VAdd(term, RepulsionSum(pos, i, j + 1))

_calculate_agent_repulsion(pos, pf) ==
    [i \in DOMAIN pos |-> VScale(VSub(<<0, 0>>, RepulsionSum(pos, i, 1)), pf, 1000)]

\* The force of one wall on an agent at p.  At distance 0 the direction is
\* the zero vector, and so is direction / (distance + 1e-6) * magnitude.
WallForce(wall, p) ==
    LET start == wall[1]
        wall_vector == VSub(wall[2], wall[1])
        wall_length == Norm(wall_vector)
        wall_unit == VScale(wall_vector, 1000, wall_length)
        agent_to_start == VSub(p, start)
        proj_length == Max(0, Min(wall_length,
                          TDiv(agent_to_start[1] * wall_unit[1], 1000)
                            + TDiv(agent_to_start[2] * wall_unit[2], 1000)))
        closest_point == VAdd(start, VScale(wall_unit, proj_length, 1000))
        direction == VSub(p, closest_point)
        distance == Norm(direction)
    IN IF distance < 1000 /\ distance > 0
       THEN VScale(VScale(direction, 1000, distance), 3 * ExpNeg(distance * 5), 1000)
       ELSE <<0, 0>>

RECURSIVE WallSum(_, _, _)
WallSum(walls, p, k) ==
    IF k > Len(walls) THEN <<0, 0>>
    ELSE VAdd(WallForce(walls[k], p), WallSum(walls, p, k + 1))

_calculate_wall_repulsion(pos, walls) ==
    [i \in DOMAIN pos |-> WallSum(walls, pos[i], 1)]

\* The force of one hazard on an agent at p
HazardPush(hazard, p) ==
    LET rel == VSub(p, hazard.position)
        distance == Norm(rel)
    IN IF distance < hazard.radius * 2
       THEN VScale(VScale(rel, 1000, distance),
                   5 * TDiv(hazard.intensity * ExpNeg(TDiv(distance * 1000, hazard.radius)), 1000),
                   1000)
       ELSE <<0, 0>>

RECURSIVE HazardSum(_, _, _)
HazardSum(hazards, p, k) ==
    IF k > Len(hazards) THEN <<0, 0>>
    ELSE VAdd(HazardPush(hazards[k], p), HazardSum(hazards, p, k + 1))

_calculate_hazard_avoidance(pos, hazards, pf) ==
    [i \in DOMAIN pos |-> VScale(HazardSum(hazards, pos[i], 1), pf, 1000)]

\* total_force = desired_force + agent_repulsion + wall_repulsion + hazard_avoidance,
\* computed for every row of positions
total_force(args, pos, vel, goals, pf) ==
    [i \in DOMAIN pos |->
        VAdd(VAdd(_calculate_desired_force(pos, vel, goals)[i],
                  _calculate_agent_repulsion(pos, pf)[i]),
             VAdd(_calculate_wall_repulsion(pos, args.walls)[i],
                  _calculate_hazard_avoidance(pos, args.hazards, pf)[i]))]

\* max_speed = self.desired_speed * (1 + 0.5 * self.panic_factor)
max_speed(pf) == TDiv(desired_speed * (1000 + pf \div 2), 1000)

\* velocities[mask] = velocities[mask] * max_speed / speeds[mask]
LimitSpeed(v, pf) ==
    IF Norm(v) > max_speed(pf) THEN VScale(v, max_speed(pf), Norm(v)) ELSE v

\* velocities += total_force * dt, then the speed limit
NewVelocities(args, pos, vel, goals, pf) ==
    [i \in DOMAIN pos |->
        LimitSpeed(VAdd(vel[i], VScale(total_force(args, pos, vel, goals, pf)[i], dt, 1000)), pf)]

\* positions += velocities * dt
NewPositions(pos, vel) == [i \in DOMAIN pos |-> VAdd(pos[i], VScale(vel[i], dt, 1000))]

\* The loop over the exits at the end of an iteration, from exit k on: the
\* agents within 1 m of the exit are counted, moved to the sentinel and
\* stopped, before the next exit is looked at.
RECURSIVE ExitCheck(_, _, _, _, _, _)
ExitCheck(exits, k, pos, vel, count, reached) ==
    IF k > Len(exits) THEN [positions |-> pos, velocities |-> vel, count |-> count, reached |-> reached]
    ELSE LET reached_exit == {i \in DOMAIN pos : Norm(VSub(pos[i], exits[k])) < 1000}
         IN ExitCheck(exits, k + 1,
                [i \in DOMAIN pos |-> IF i \in reached_exit THEN Sentinel ELSE pos[i]],
                [i \in DOMAIN pos |-> IF i \in reached_exit THEN <<0, 0>> ELSE vel[i]],
                count + Cardinality(reached_exit),
                reached \cup reached_exit)

\* torch.argmin of the distances to the exits, from exit j on
RECURSIVE ClosestGoal(_, _, _, _)
ClosestGoal(exits, p, j, best) ==
    IF j > Len(exits) THEN exits[best]
    ELSE ClosestGoal(exits, p, j + 1,
            IF Norm(VSub(exits[j], p)) < Norm(VSub(exits[best], p)) THEN j ELSE best)

\* Two agents in the 20 m x 20 m room: walls along the south and west
\* sides, an exit in the middle of the west side and one in the middle of
\* the east side, a hazard in the north-east corner.
MicroScenarioA ==
    [ num_agents |-> 2,
      walls      |-> << <<<<0, 0>>, <<20000, 0>>>>, <<<<0, 0>>, <<0, 9000>>>> >>,
      exits      |-> << <<0, 10000>>, <<20000, 10000>> >>,
      hazards    |-> << [position |-> <<18000, 18000>>, radius |-> 2000, intensity |-> 1000] >> ]

MicroScenarios == {MicroScenarioA}

\* The values of torch.rand(num_agents, 2) * 20 that are followed
Spots ==
    { <<900, 10000>>, <<1050, 10200>>, <<18880, 10000>>,
      <<10500, 10000>>, <<500, 8400>>, <<19000, 19500>>, <<19990, 18500>> }

\* Iterations of one call that are followed
MaxTimeSteps == 4

\* simulate(): the override of panic_factor, the test of DEV_MODE (the
\* native path), the random initial positions, the goals and the histories.
simulate_begin ==
    \E sc \in MicroScenarios, a \in PanicArgs :
      \E start \in [1..sc.num_agents -> Spots] :
        /\ microPc \in {"idle", "returned"}
        /\ DEV_MODE # "mock"
        /\ panic_factor' = IF a \in {None, Absent} THEN panic_factor ELSE a.v
        /\ simArgs' = [num_agents |-> sc.num_agents, time_steps |-> MaxTimeSteps,
                       walls |-> sc.walls, exits |-> sc.exits, hazards |-> sc.hazards]
        /\ positions' = start
        /\ velocities' = [i \in 1..sc.num_agents |-> <<0, 0>>]
        /\ agent_goals' = [i \in 1..sc.num_agents |-> ClosestGoal(sc.exits, start[i], 1, 1)]
        /\ loop_t' = 0
        /\ position_history' = <<>>
        /\ velocity_history' = <<>>
        /\ safe_agents' = <<>>
        /\ evacuated' = {}
        /\ microPc' = "loop"
        /\ UNCHANGED <<DEV_MODE, initial_DEV_MODE, lastCall, lastResult, envelope, rlVars, fieldVars>>

\* One iteration of "for t in range(time_steps)"
simulate_iteration ==
    /\ microPc = "loop"
    /\ loop_t < simArgs.time_steps
    /\ velocity_history' = Append(velocity_history,
            NewVelocities(simArgs, positions, velocities, agent_goals, panic_factor))
    /\ position_history' = Append(position_history,
            NewPositions(positions, velocity_history'[loop_t + 1]))
    /\ \E r \in {ExitCheck(simArgs.exits, 1, position_history'[loop_t + 1],
                           velocity_history'[loop_t + 1], 0, {})} :
            /\ positions' = r.positions
            /\ velocities' = r.velocities
            /\ safe_agents' = Append(safe_agents, r.count)
            /\ evacuated' = evacuated \cup r.reached
    /\ loop_t' = loop_t + 1
    /\ UNCHANGED <<simArgs, agent_goals, microPc, svcVars, rlVars, fieldVars>>

\* The loop is over: the histories are returned.
simulate_return ==
    /\ microPc = "loop"
    /\ loop_t = simArgs.time_steps
    /\ microPc' = "returned"
    /\ UNCHANGED <<simArgs, positions, velocities, agent_goals, loop_t, position_history,
                   velocity_history, safe_agents, evacuated, svcVars, rlVars, fieldVars>>

InitMicro == RLIdle /\ SvcIdle /\ MicroIdle /\ FieldIdle

NextMicro ==
    \/ simulate_begin
    \/ simulate_iteration
    \/ simulate_return

SpecMicro == InitMicro /\ [][NextMicro]_vars

----------------------------------------------------------------------------
(* Part 4: the native path of BoltzmannModel.simulate                      *)
(* (models/mesoscopic/boltzmann.py), one action per loop iteration.        *)
(*                                                                         *)
(* Numbers.  The distribution f, the density, the momentum and the exit    *)
(* potential are in 1/1000000; velocities of the lattice are in 1/1000000; *)
(* the hazard field and the recorded velocity field are in 1/1000.         *)
(* A field is a function of the cell <<x, y>>; the code's index is [y, x]. *)

\* a * b / 1000000, truncated toward zero, without leaving 32 bits
MulMicro(a, b) ==
    LET x1 == Abs(a) \div 1000
        x0 == Abs(a) % 1000
        y1 == Abs(b) \div 1000
        y0 == Abs(b) % 1000
    IN Sign(a) * Sign(b) * (x1 * y1 + (x1 * y0 + x0 * y1 + (x0 * y0) \div 1000) \div 1000)

\* self.velocities[i] = (cos(2 pi i / 8), sin(2 pi i / 8)), i = 0..7
meso_velocities ==
    << <<1000000, 0>>, <<707107, 707107>>, <<0, 1000000>>, <<-707107, 707107>>,
       <<-1000000, 0>>, <<-707107, -707107>>, <<0, -1000000>>, <<707107, -707107>> >>

\* dt = 0.1 (in 1/1000)
meso_dt == 100

\* The sum of a field over the grid
RECURSIVE FieldSumFrom(_, _, _)
FieldSumFrom(field, N, k) ==
    IF k >= N * N THEN 0
    ELSE field[<<k % N, k \div N>>] + FieldSumFrom(field, N, k + 1)

FieldSum(field, N) == FieldSumFrom(field, N, 0)

\* torch.gradient of a field along x (axis = 1) or y (axis = 2): central
\* differences inside, one-sided differences on the border
Gradient(field, N, axis, c) ==
    LET at(i) == IF axis = 1 THEN field[<<i, c[2]>>] ELSE field[<<c[1], i>>]
        i0 == c[axis]
    IN IF i0 = 0 THEN at(1) - at(0)
       ELSE IF i0 = N - 1 THEN at(N - 1) - at(N - 2)
       ELSE TDiv(at(i0 + 1) - at(i0 - 1), 2)

\* The initial spatial density: the clusters of initial_positions, or a
\* block of 5.0 in the centre
InitialDensity(sc) ==
    LET N == sc.grid_size
        center == N \div 2
        radius == N \div 8
        P == sc.initial_positions
    IN [c \in Cells(N) |->
          IF P # <<>>
          THEN SumSeq([i \in DOMAIN P |->
                  IF c = <<Clamp(ToGrid(P[i].x, N), N), Clamp(ToGrid(P[i].y, N), N)>>
                  THEN P[i].count * 1000000 ELSE 0])
          ELSE IF /\ center - radius <= c[1] /\ c[1] < center + radius
                  /\ center - radius <= c[2] /\ c[2] < center + radius
               THEN 5000000 ELSE 0]

\* f[i] = density / num_velocities
_initialize_distribution(sc) ==
    [k \in 1 .. 8 |-> [c \in Cells(sc.grid_size) |-> TDiv(InitialDensity(sc)[c], 8)]]

\* A faulty variant of _apply_boundary_conditions: the wall cells keep
\* their distribution.
_apply_boundary_conditions_keep(f, W) == f

\* f[:, y, x] = 0 for the wall cells W
_apply_boundary_conditions(f, W) ==
    [k \in 1 .. 8 |-> [c \in DOMAIN f[k] |-> IF c \in W THEN 0 ELSE f[k][c]]]

\* density = torch.sum(f, dim=0)
Density(f) == [c \in DOMAIN f[1] |-> SumSeq([k \in 1 .. 8 |-> f[k][c]])]

\* momentum / density (1/1000), for a density above 1e-5
VelocityOf(momentum, density) ==
    IF density > 10
    THEN IF Abs(momentum) <= 2000000 THEN TDiv(momentum * 1000, density)
         ELSE TDiv(momentum, density \div 1000)
    ELSE 0

\* The velocity field along x (axis = 1) or y (axis = 2)
VelocityField(f, axis) ==
    [c \in DOMAIN f[1] |->
        VelocityOf(SumSeq([k \in 1 .. 8 |-> MulMicro(f[k][c], meso_velocities[k][axis])]),
                   SumSeq([k \in 1 .. 8 |-> f[k][c]]))]

\* collision_term = -(f - f_eq) / relaxation_time
_collision_step(f, density) ==
    [k \in 1 .. 8 |-> [c \in DOMAIN density |->
        - TDiv(f[k][c] - TDiv(density[c], 8), IF density[c] > 4000000 THEN 2 ELSE 1)]]

\* f = f + dt * collision_term
Collide(f, density) ==
    [k \in 1 .. 8 |-> [c \in DOMAIN density |->
        f[k][c] + TDiv(_collision_step(f, density)[k][c] * meso_dt, 1000)]]

\* The hazard field of _add_hazard_influence (1/1000)
hazard_field(sc) ==
    [c \in Cells(sc.grid_size) |->
        SumSeq([i \in DOMAIN sc.hazards |-> HazardAt(sc, sc.hazards[i], c)])]

\* f with the adjustment of every direction added, for the hazard field hz
\* and density = torch.sum(f, dim=0)
_add_hazard_influence(f, hz, density, N) ==
    IF \A c \in DOMAIN hz : hz[c] <= 10 THEN f
    ELSE [k \in 1 .. 8 |-> [c \in DOMAIN hz |->
            IF hz[c] > 10
            THEN f[k][c] + Max(0, Min(density[c],
                    TDiv((- MulMicro(meso_velocities[k][1], Gradient(hz, N, 1, c))
                          - MulMicro(meso_velocities[k][2], Gradient(hz, N, 2, c)))
                            * hz[c] * meso_dt, 1000)))
            ELSE f[k][c]]]

\* exit_potential: the largest exp(-dist / (grid_size / 10)) over the exits,
\* which is the one of the nearest exit; zero without exits
exit_potential(sc) ==
    LET N == sc.grid_size
        d2(c, e) == (c[1] - ToGrid(e[1], N)) * (c[1] - ToGrid(e[1], N))
                      + (c[2] - ToGrid(e[2], N)) * (c[2] - ToGrid(e[2], N))
    IN [c \in Cells(N) |->
          IF sc.exits = <<>> THEN 0
          ELSE 1000 * ExpNeg(TDiv(SqrtMilli(
                  CHOOSE m \in {d2(c, sc.exits[j]) : j \in DOMAIN sc.exits} :
                      \A j \in DOMAIN sc.exits : m <= d2(c, sc.exits[j])) * 10, N))]

\* f with dot_product * 0.1 added in every direction whose dot product with
\* the gradient of the exit potential pot is positive
_calculate_exit_attraction(f, pot, N) ==
    [k \in 1 .. 8 |-> [c \in DOMAIN pot |->
        LET dot_product == MulMicro(meso_velocities[k][1], Gradient(pot, N, 1, c))
                             + MulMicro(meso_velocities[k][2], Gradient(pot, N, 2, c))
        IN IF dot_product > 0 THEN f[k][c] + TDiv(dot_product, 10) ELSE f[k][c]]]

\* int(round(v * dt)) for v in 1/1000000 (round half to even)
ShiftOf(v) ==
    LET x == TDiv(Abs(v) * meso_dt, 1000)
        q == x \div 1000000
        r == x % 1000000
    IN Sign(v) * (IF r > 500000 \/ (r = 500000 /\ q % 2 = 1) THEN q + 1 ELSE q)

\* new_f[i, y + shift_y, x + shift_x] += f[i, y, x] inside the grid
_streaming_step(f, N) ==
    [k \in 1 .. 8 |-> [c \in DOMAIN f[k] |->
        LET from == <<c[1] - ShiftOf(meso_velocities[k][1]), c[2] - ShiftOf(meso_velocities[k][2])>>
        IN IF from \in DOMAIN f[k] THEN f[k][from] ELSE 0]]

\* A 4 x 4 grid for the room with its four walls (the walls along x = 20
\* and y = 20 fall outside the grid), an exit in the west wall and one in
\* the east wall, a hazard, two clusters of people.
MesoScenarioBox ==
    [grid_size |-> 4,
     walls |-> << <<<<0, 0>>, <<20, 0>>>>, <<<<20, 0>>, <<20, 20>>>>,
                  <<<<20, 20>>, <<0, 20>>>>, <<<<0, 20>>, <<0, 0>>>> >>,
     exits |-> << <<0, 10>>, <<20, 10>> >>,
     hazards |-> << [position |-> <<12, 12>>, radius |-> 10, intensity |-> 1000] >>,
     initial_positions |-> << [x |-> 10, y |-> 10, count |-> 10],
                              [x |-> 15, y |-> 5, count |-> 4] >>]

\* A 5 x 5 grid without walls or hazards, one exit, one dense cluster.
MesoScenarioOpen ==
    [grid_size |-> 5,
     walls |-> <<>>,
     exits |-> << <<10, 0>> >>,
     hazards |-> <<>>,
     initial_positions |-> << [x |-> 10, y |-> 10, count |-> 20] >>]

\* A 4 x 4 grid with a wall across the room, one cluster on the wall and one
\* beside it, a hazard, no exits.
MesoScenarioWall ==
    [grid_size |-> 4,
     walls |-> << <<<<10, 0>>, <<10, 20>>>> >>,
     exits |-> <<>>,
     hazards |-> << [position |-> <<5, 5>>, radius |-> 10, intensity |-> 1500] >>,
     initial_positions |-> << [x |-> 10, y |-> 10, count |-> 6],
                              [x |-> 5, y |-> 10, count |-> 3] >>]

MesoScenarios == {MesoScenarioBox, MesoScenarioOpen, MesoScenarioWall}

\* simulate(time_steps=100)
MesoTimeSteps == 100

\* simulate(): the test of DEV_MODE (the native path), the initial
\* distribution, the histories, the boundary conditions before the loop.
meso_begin ==
    \E sc \in MesoScenarios :
        /\ mesoPc \in {"idle", "returned"}
        /\ DEV_MODE # "mock"
        /\ mesoArgs' = [grid_size |-> sc.grid_size, time_steps |-> MesoTimeSteps,
                        walls |-> sc.walls, exits |-> sc.exits, hazards |-> sc.hazards,
                        initial_positions |-> sc.initial_positions]
        /\ f_dist' = _apply_boundary_conditions(_initialize_distribution(sc), WallCells(sc))
        /\ meso_t' = 0
        /\ density_history' = <<>>
        /\ velocity_x_history' = <<>>
        /\ velocity_y_history' = <<>>
        /\ total_occupancy' = <<>>
        /\ mesoPc' = "loop"
        /\ UNCHANGED <<rlVars, svcVars, microVars, macroVars>>

\* A faulty variant of meso_step: the collision runs after the exit
\* attraction instead of first.
meso_step_collide_late(f, sc) ==
    LET f1 == _add_hazard_influence(f, hazard_field(sc), Density(f), sc.grid_size)
        f2 == _calculate_exit_attraction(f1, exit_potential(sc), sc.grid_size)
        f3 == Collide(f2, Density(f2))
        f4 == _streaming_step(f3, sc.grid_size)
    IN _apply_boundary_conditions(f4, WallCells(sc))

\* The body of the loop after the recording of the fields: f after the
\* collision, the hazard influence, the exit attraction, the streaming step
\* and the boundary conditions, in this order.
meso_step(f, sc) ==
    LET f1 == Collide(f, Density(f))
        f2 == _add_hazard_influence(f1, hazard_field(sc), Density(f1), sc.grid_size)
        f3 == _calculate_exit_attraction(f2, exit_potential(sc), sc.grid_size)
        f4 == _streaming_step(f3, sc.grid_size)
    IN _apply_boundary_conditions(f4, WallCells(sc))

\* One iteration of "for t in range(time_steps)"
meso_iteration ==
    /\ mesoPc = "loop"
    /\ meso_t < mesoArgs.time_steps
    /\ density_history' = Append(density_history, Density(f_dist))
    /\ velocity_x_history' = Append(velocity_x_history, VelocityField(f_dist, 1))
    /\ velocity_y_history' = Append(velocity_y_history, VelocityField(f_dist, 2))
    /\ total_occupancy' = Append(total_occupancy, FieldSum(density_history'[meso_t + 1], mesoArgs.grid_size))
    /\ f_dist' = meso_step(f_dist, mesoArgs)
    /\ meso_t' = meso_t + 1
    /\ UNCHANGED <<mesoArgs, mesoPc, rlVars, svcVars, microVars, macroVars>>

\* The loop is over: the histories are returned.
meso_return ==
    /\ mesoPc = "loop"
    /\ meso_t = mesoArgs.time_steps
    /\ mesoPc' = "returned"
    /\ UNCHANGED <<mesoArgs, f_dist, meso_t, density_history, velocity_x_history,
                   velocity_y_history, total_occupancy, rlVars, svcVars, microVars,
                   macroVars>>

InitMeso == RLIdle /\ SvcIdle /\ MicroIdle /\ FieldIdle

NextMeso ==
    \/ meso_begin
    \/ meso_iteration
    \/ meso_return

SpecMeso == InitMeso /\ [][NextMeso]_vars

----------------------------------------------------------------------------
(* Part 5: MacroscopicModel._solve_pde_finite_difference                    *)
(* (models/macroscopic/pde_model.py), one action per loop iteration.       *)

\* A float of the density arithmetic: a number (1/1000), an infinity with
\* its sign, or NaN
Num(n) == [k |-> "num", v |-> n]

Inf(sgn) == [k |-> "inf", v |-> sgn]

NaN == [k |-> "nan", v |-> 0]

\* a + b
FAdd(a, b) ==
    IF a.k = "nan" \/ b.k = "nan" THEN NaN
    ELSE IF a.k = "inf" THEN (IF b.k = "inf" /\ b.v # a.v THEN NaN ELSE a)
    ELSE IF b.k = "inf" THEN b
    ELSE Num(a.v + b.v)

\* a - b
FSub(a, b) == FAdd(a, [b EXCEPT !.v = - b.v])

\* a * n / d for integers n and d >= 0: the product with a finite factor
\* n / d, or the quotient by d / n when d = 0
FScale(a, n, d) ==
    IF a.k = "nan" THEN NaN
    ELSE IF a.k = "inf" THEN (IF n = 0 THEN NaN ELSE Inf(a.v * Sign(n)))
    ELSE IF d = 0 THEN (IF a.v = 0 \/ n = 0 THEN NaN ELSE Inf(Sign(a.v) * Sign(n)))
    ELSE Num(Sign(a.v) * Sign(n)
               * ((Abs(a.v) \div d) * Abs(n) + ((Abs(a.v) % d) * Abs(n)) \div d))

\* a * m for a finite m in 1/1000000
FMulMicro(a, m) ==
    IF a.k = "nan" THEN NaN
    ELSE IF a.k = "inf" THEN (IF m = 0 THEN NaN ELSE Inf(a.v * Sign(m)))
    ELSE Num(MulMicro(a.v, m))

\* torch.clamp(a, min=0.0)
FClampMin(a) ==
    IF a.k = "nan" THEN NaN
    ELSE IF a.k = "inf" THEN (IF a.v > 0 THEN a ELSE Num(0))
    ELSE Num(Max(0, a.v))

\* torch.sum of a field of floats
RECURSIVE FFieldSumFrom(_, _, _)
FFieldSumFrom(field, N, k) ==
    IF k >= N * N THEN Num(0)
    ELSE FAdd(field[<<k % N, k \div N>>], FFieldSumFrom(field, N, k + 1))

FFieldSum(field, N) == FFieldSumFrom(field, N, 0)

\* The cell of a point, clamped into the grid
ClampedCell(x, y, N) == <<Clamp(ToGrid(x, N), N), Clamp(ToGrid(y, N), N)>>

\* The initial density: density[y_idx, x_idx] = count / (dx * dx) with
\* dx = 1 / grid_resolution, the later cluster of a cell replacing the
\* earlier one; without clusters a block of 5.0 / (dx * dx) in the centre
macro_initial_density(sc) ==
    LET N == sc.grid_resolution
        P == sc.initial_positions
        center == N \div 2
        radius == N \div 8
        on(c) == {i \in DOMAIN P : ClampedCell(P[i].x, P[i].y, N) = c}
    IN [c \in Cells(N) |->
          IF P # <<>>
          THEN IF on(c) = {} THEN Num(0)
               ELSE Num(P[CHOOSE i \in on(c) : \A j \in on(c) : j <= i].count * N * N * 1000)
          ELSE IF /\ center - radius <= c[1] /\ c[1] < center + radius
                  /\ center - radius <= c[2] /\ c[2] < center + radius
               THEN Num(5 * N * N * 1000) ELSE Num(0)]

\* dist_sq < grid_radius ** 2 for hazard h and cell c
Covers(sc, h, c) ==
    LET N  == sc.grid_resolution
        cx == ToGrid(h.position[1], N)
        cy == ToGrid(h.position[2], N)
        r  == (h.radius * N) \div 20
    IN (c[1] - cx) * (c[1] - cx) + (c[2] - cy) * (c[2] - cy) < r * r

\* The initial fire field: fire_field[y, x] = intensity * (1 - dist / r) for
\* the hazards of type fire, the later hazard of a cell replacing the earlier
initial_fire_field(sc) ==
    LET H == sc.hazards
        on(c) == {i \in DOMAIN H : H[i].type = "fire" /\ Covers(sc, H[i], c)}
    IN [c \in Cells(sc.grid_resolution) |->
          IF on(c) = {} THEN 0
          ELSE 1000 * HazardAt([grid_size |-> sc.grid_resolution],
                               H[CHOOSE i \in on(c) : \A j \in on(c) : j <= i], c)]

\* wall_mask: the cells of the wall lines inside the grid
macro_wall_mask(sc) == WallCells([grid_size |-> sc.grid_resolution, walls |-> sc.walls])

\* The local dx when the loop starts: 1.0 / grid_resolution, or
\* abs(end_x - start_x) of the last wall when there are walls
dx_after_walls(sc) ==
    IF sc.walls = <<>> THEN <<1, sc.grid_resolution>>
    ELSE LET w == sc.walls[Len(sc.walls)]
         IN <<Abs(ToGrid(w[2][1], sc.grid_resolution) - ToGrid(w[1][1], sc.grid_resolution)), 1>>

\* exit_radius = max(1, int(0.5 * grid_resolution / 20))
exit_radius(N) == Max(1, (5 * N) \div 200)

\* The cells with exit_field = 1.0: dist < exit_radius from the cell of an exit
macro_exit_field(sc) ==
    LET N == sc.grid_resolution
    IN {c \in Cells(N) : \E j \in DOMAIN sc.exits :
          (c[1] - ToGrid(sc.exits[j][1], N)) * (c[1] - ToGrid(sc.exits[j][1], N))
            + (c[2] - ToGrid(sc.exits[j][2], N)) * (c[2] - ToGrid(sc.exits[j][2], N))
          < exit_radius(N) * exit_radius(N)}

\* update_velocity_field(): the unit vector against the gradient of the
\* distance to the nearest exit (1000.0 on walls), zero on walls
update_velocity_field(sc, W) ==
    LET N == sc.grid_resolution
        d2(c, e) == (c[1] - ToGrid(e[1], N)) * (c[1] - ToGrid(e[1], N))
                      + (c[2] - ToGrid(e[2], N)) * (c[2] - ToGrid(e[2], N))
        potential == [c \in Cells(N) |->
            IF c \in W \/ sc.exits = <<>> THEN 1000000
            ELSE Min(1000000, SqrtMilli(
                    CHOOSE m \in {d2(c, sc.exits[j]) : j \in DOMAIN sc.exits} :
                        \A j \in DOMAIN sc.exits : m <= d2(c, sc.exits[j])))]
    IN [c \in Cells(N) |->
          LET g == <<Gradient(potential, N, 1, c), Gradient(potential, N, 2, c)>>
          IN IF c \in W \/ Norm(g) = 0 THEN <<0, 0>> ELSE VScale(g, -1000, Norm(g))]

\* The velocity field turned away from the fire: velocity - 0.5 * avoidance,
\* renormalised
avoid_fire(vel, fire, N) ==
    LET g(c) == <<Gradient(fire, N, 1, c), Gradient(fire, N, 2, c)>>
    IN IF \A c \in Cells(N) : Norm(g(c)) = 0 THEN vel
       ELSE [c \in Cells(N) |->
               LET a == IF Norm(g(c)) > 0 THEN VScale(g(c), 1000, Norm(g(c))) ELSE <<0, 0>>
                   v == <<vel[c][1] - TDiv(MulMicro(a[1], fire[c]), 2),
                          vel[c][2] - TDiv(MulMicro(a[2], fire[c]), 2)>>
               IN IF Norm(v) > 0 THEN VScale(v, 1000, Norm(v)) ELSE v]

\* The velocity field of the next iteration
next_velocity(sc, W, vel, fire, t) ==
    IF t % 10 = 0
    THEN IF FieldSum(fire, sc.grid_resolution) > 0
         THEN avoid_fire(update_velocity_field(sc, W), fire, sc.grid_resolution)
         ELSE update_velocity_field(sc, W)
    ELSE vel

\* fire_spread: the convolution with the 3 x 3 kernel, outside cells zero;
\* the result is 0.1 * fire_spread
FireSpread(fire, N, c) ==
    LET at(i, j) == IF <<c[1] + i, c[2] + j>> \in Cells(N) THEN fire[<<c[1] + i, c[2] + j>>] ELSE 0
    IN TDiv(200 * (at(1, 0) + at(-1, 0) + at(0, 1) + at(0, -1))
              + 50 * (at(1, 1) + at(1, -1) + at(-1, 1) + at(-1, -1)), 10000)

\* The fire field after the update of one iteration
update_fire_field(fire, W, N) ==
    IF FieldSum(fire, N) > 0
    THEN [c \in Cells(N) |->
            IF c \in W THEN 0 ELSE Max(0, Min(1000000, fire[c] + FireSpread(fire, N, c)))]
    ELSE fire

\* dt * evacuation in a cell: 0.1 * 1.5 * exit_field * density
EvacuationTerm(density, E, c) ==
    FScale(FScale(density[c], IF c \in E THEN 1500 ELSE 0, 1000), 100, 1000)

\* density_new in a cell, before the wall cells are zeroed: the divergence
\* and the Laplacian are zero outside the interior cells
DensityNew(density, vel, fire, E, q, N, c) ==
    LET flux_x(b) == FScale(density[b], vel[b][1], 1000)
        flux_y(b) == FScale(density[b], vel[b][2], 1000)
        inner == 1 <= c[1] /\ c[1] <= N - 2 /\ 1 <= c[2] /\ c[2] <= N - 2
        E1 == <<c[1] + 1, c[2]>>
        W1 == <<c[1] - 1, c[2]>>
        N1 == <<c[1], c[2] + 1>>
        S1 == <<c[1], c[2] - 1>>
        div_x == IF inner THEN FScale(FSub(flux_x(E1), flux_x(W1)), q[2], 2 * q[1]) ELSE Num(0)
        div_y == IF inner THEN FScale(FSub(flux_y(N1), flux_y(S1)), q[2], 2 * q[1]) ELSE Num(0)
        \* dt * diffusion_coefficient * laplacian
        diffusion == IF inner
                     THEN FScale(FSub(FAdd(FAdd(density[E1], density[W1]),
                                           FAdd(density[N1], density[S1])),
                                      FScale(density[c], 4, 1)),
                                 50 * q[2] * q[2], 1000 * q[1] * q[1])
                     ELSE Num(0)
        hazard_effect == FScale(FMulMicro(density[c], fire[c]), 200, 1000)
    IN FClampMin(FSub(FSub(FAdd(FSub(density[c], FScale(FAdd(div_x, div_y), 100, 1000)),
                                diffusion),
                           EvacuationTerm(density, E, c)),
                      FScale(hazard_effect, 100, 1000)))

\* The density after one iteration
update_density(density, vel, fire, E, W, q, N) ==
    [c \in Cells(N) |-> IF c \in W THEN Num(0) ELSE DensityNew(density, vel, fire, E, q, N, c)]

\* The layouts of the model (on a grid of resolution 4): the room with its four walls
\* (the last wall is vertical), two walls ending with a horizontal one and
\* an exit on a wall, no walls, one horizontal wall inside the room.
MacroLayoutBox ==
    [walls |-> << <<<<0, 0>>, <<20, 0>>>>, <<<<20, 0>>, <<20, 20>>>>,
                  <<<<20, 20>>, <<0, 20>>>>, <<<<0, 20>>, <<0, 0>>>> >>,
     exits |-> << <<10, 0>> >>]

MacroLayoutCorner ==
    [walls |-> << <<<<0, 0>>, <<0, 20>>>>, <<<<0, 0>>, <<20, 0>>>> >>,
     exits |-> << <<0, 10>>, <<19, 10>> >>]

MacroLayoutOpen ==
    [walls |-> <<>>,
     exits |-> << <<0, 10>> >>]

MacroLayoutInner ==
    [walls |-> << <<<<5, 10>>, <<14, 10>>>> >>,
     exits |-> << <<10, 0>> >>]

\* No walls, one exit on the far boundary x = 20
MacroLayoutFar ==
    [walls |-> <<>>,
     exits |-> << <<20, 10>> >>]

MacroLayouts ==
    {MacroLayoutBox, MacroLayoutCorner, MacroLayoutOpen, MacroLayoutInner, MacroLayoutFar}

\* The clusters of people of the model
MacroClusters ==
    { << [x |-> 10, y |-> 10, count |-> 10] >>,
      << [x |-> 0, y |-> 10, count |-> 10], [x |-> 10, y |-> 10, count |-> 5] >>,
      << [x |-> 5, y |-> 5, count |-> 4], [x |-> 15, y |-> 15, count |-> 6] >> }

\* The hazards of the model
MacroHazards ==
    { <<>>,
      << [position |-> <<5, 5>>, radius |-> 15, intensity |-> 900, type |-> "fire"] >>,
      << [position |-> <<15, 15>>, radius |-> 10, intensity |-> 1200, type |-> "fire"],
         [position |-> <<5, 5>>, radius |-> 5, intensity |-> 1000, type |-> "structural"] >>,
      << [position |-> <<5, 5>>, radius |-> 10, intensity |-> 500, type |-> "fire"],
         [position |-> <<10, 10>>, radius |-> 10, intensity |-> 400, type |-> "fire"] >> }

\* The largest time_steps of a call
MacroTimeSteps == 10

\* simulate() on the native path: _solve_pde_finite_difference up to the loop
macro_begin ==
    \E layout \in MacroLayouts, clusters \in MacroClusters, hz \in MacroHazards :
    \E sc \in {[grid_resolution |-> 4, time_steps |-> MacroTimeSteps,
                walls |-> layout.walls, exits |-> layout.exits,
                initial_positions |-> clusters, hazards |-> hz]} :
        /\ macroPc \in {"idle", "returned"}
        /\ DEV_MODE # "mock"
        /\ macroArgs' = sc
        /\ macro_density' = macro_initial_density(sc)
        /\ fire_field' = initial_fire_field(sc)
        /\ wall_mask' = macro_wall_mask(sc)
        /\ macro_dx' = dx_after_walls(sc)
        /\ exit_field' = macro_exit_field(sc)
        /\ macro_velocity' = update_velocity_field(sc, wall_mask')
        /\ macro_t' = 0
        /\ macro_density_history' = <<>>
        /\ macro_velocity_history' = <<>>
        /\ fire_history' = <<>>
        /\ evacuated_count' = <<>>
        /\ macroPc' = "loop"
        /\ UNCHANGED <<rlVars, svcVars, microVars, mesoVars>>

\* One iteration of "for t in range(time_steps)"
macro_iteration ==
    /\ macroPc = "loop"
    /\ macro_t < macroArgs.time_steps
    /\ macro_density_history' = Append(macro_density_history, macro_density)
    /\ macro_velocity_history' = Append(macro_velocity_history, macro_velocity)
    /\ fire_history' = Append(fire_history, fire_field)
    /\ fire_field' = update_fire_field(fire_field, wall_mask, macroArgs.grid_resolution)
    /\ macro_density' = update_density(macro_density, macro_velocity, fire_field', exit_field,
                                       wall_mask, macro_dx, macroArgs.grid_resolution)
    /\ evacuated_count' = Append(evacuated_count,
           FFieldSum([c \in Cells(macroArgs.grid_resolution) |->
                         EvacuationTerm(macro_density, exit_field, c)],
                     macroArgs.grid_resolution))
    /\ macro_velocity' = next_velocity(macroArgs, wall_mask, macro_velocity, fire_field', macro_t)
    /\ macro_t' = macro_t + 1
    /\ UNCHANGED <<macroArgs, macro_dx, wall_mask, exit_field, macroPc,
                   rlVars, svcVars, microVars, mesoVars>>

\* The loop is over: the histories are returned.
macro_return ==
    /\ macroPc = "loop"
    /\ macro_t = macroArgs.time_steps
    /\ macroPc' = "returned"
    /\ UNCHANGED <<macroArgs, macro_dx, wall_mask, exit_field, macro_density, fire_field,
                   macro_velocity, macro_t, macro_density_history, macro_velocity_history,
                   fire_history, evacuated_count, rlVars, svcVars, microVars, mesoVars>>

InitMacro == RLIdle /\ SvcIdle /\ MicroIdle /\ FieldIdle

NextMacro ==
    \/ macro_begin
    \/ macro_iteration
    \/ macro_return

SpecMacro == InitMacro /\ [][NextMacro]_vars

\* Both field solvers in one process.  A call is synchronous: no iteration
\* of one solver runs while a call of the other is inside its loop.  The
\* mesoscopic calls are made first, the macroscopic ones after them.
NextField ==
    \/ macroPc = "idle" /\ NextMeso
    \/ mesoPc # "loop" /\ NextMacro

SpecField == InitMeso /\ [][NextField]_vars

----------------------------------------------------------------------------
(* Specifications of the environment *)

\* Steps of one episode explored by Spec
MaxEpisodeSteps == 3

Init == RLInit(Scenarios) /\ SvcIdle /\ MicroIdle /\ FieldIdle

Next ==
    \/ reset
    \/ \E action \in Actions : time_step < MaxEpisodeSteps /\ step(action)

Spec == Init /\ [][Next]_vars

\* One small scenario, followed past the step limit.
InitLong == RLInit({ScenarioL}) /\ SvcIdle /\ MicroIdle /\ FieldIdle

NextLong ==
    \/ reset
    \/ \E action \in Actions : time_step < StepLimit + 2 /\ step(action)

SpecLong == InitLong /\ [][NextLong]_vars

----------------------------------------------------------------------------
(* Claims about the RL environment *)

\* C1: within an episode the number of evacuated agents is in 0..N_agents and
\* never decreases from one step() to the next, and an evacuated agent is not
\* active again before the next reset().
C1_EvacuatedMonotone ==
    [][lastOp' = "step" =>
          /\ agent_status' \in [Agents(scenario) -> {0, 1}]
          /\ Evacuated(agent_status') \in 0 .. scenario.num_agents
          /\ Evacuated(agent_status') >= Evacuated(agent_status)
          /\ \A i \in Agents(scenario) : agent_status[i] = 1 => agent_status'[i] = 1]_vars

\* A step() made in mid-episode with one agent evacuated and one still active.
C1_Witness ==
    /\ lastOp = "step" /\ calledIn = "in_episode" /\ time_step >= 2
    /\ Evacuated(agent_status) >= 1
    /\ Evacuated(agent_status) < scenario.num_agents

\* C2 (as claimed): step() returns done exactly when all agents are evacuated
\* or the step counter reported in info['time_step'] is at least 1000.
C2_DoneExactlyAtLimit ==
    lastOp = "step" =>
        (done <=> (Evacuated(agent_status) = scenario.num_agents \/ time_step >= StepLimit))

\* C3 (as claimed): a step() made in the terminal phase changes neither the
\* agents nor the step counter nor the evacuated count.
C3_StepInTerminalRejected ==
    [][(Phase = "terminal" /\ lastOp' = "step") =>
          UNCHANGED <<agent_positions, agent_status, time_step, previous_evacuated>>]_vars

C5_NoActiveAgentNearExit ==
    lastOp = "step" =>
        \A i \in Agents(scenario) :
            NearExit(scenario, agent_positions[i]) => agent_status[i] = 1

C7_ObservationInUnitInterval ==
    \A ch \in {"agents", "walls", "hazards", "exits"} :
        \A c \in Cells(scenario.grid_size) :
            /\ 0 <= _get_state(scenario, grid)[ch][c]
            /\ _get_state(scenario, grid)[ch][c] <= 1000

\* The Gini coefficient by its definition: the mean absolute difference of
\* the shares over twice their mean; 0 when all shares are zero.
GiniOfShares(usage) ==
    LET n     == Len(usage)
        total == SumSeq(usage)
    IN IF total = 0 THEN <<0, 1>>
       ELSE RNorm(SumSeq([k \in 1 .. n * n |->
                            Abs(usage[((k - 1) \div n) + 1] - usage[((k - 1) % n) + 1])]),
                  2 * n * total)

\* 10 x newly evacuated - 2 x hazard at the active agents, read off two
\* successive states
BaseReward ==
    RSub(<<10 * Cardinality({i \in Agents(scenario) :
                                agent_status[i] = 0 /\ agent_status'[i] = 1}), 1>>,
         <<2 * SumSeq([i \in Agents(scenario) |->
                         IF agent_status'[i] = 0 THEN grid'.hazards[agent_positions'[i]] ELSE 0]),
           1000>>)

\* max(0, 0.1 - G) x 5 for the usage shares after the step
FairnessBonus ==
    LET G == GiniOfShares(exit_usage(scenario, agent_positions', agent_status'))
    IN IF RLess(G, <<1, 10>>) THEN RMul(RSub(<<1, 10>>, G), <<5, 1>>) ELSE <<0, 1>>

\* C8 (as claimed): the reward of every step() is the base reward plus the
\* fairness bonus, the bonus being paid also when nobody has evacuated yet.
C8_RewardWithBonusAlways ==
    [][lastOp' = "step" => REq(reward', RAdd(BaseReward, FairnessBonus))]_vars

\* C8 (amended): the bonus is paid only when the scenario has an exit and at
\* least one agent is evacuated; otherwise it is 0.
C8_RewardFormula ==
    [][lastOp' = "step" =>
          REq(reward',
              IF scenario.exits # <<>> /\ Evacuated(agent_status') > 0
              THEN RAdd(BaseReward, FairnessBonus)
              ELSE BaseReward)]_vars

\* A step() after which an agent is evacuated through one of two exits (an
\* unequal usage), another is active on a hazardous cell.
C8_Witness ==
    /\ lastOp = "step"
    /\ Len(scenario.exits) = 2
    /\ Evacuated(agent_status) = 1
    /\ hazard_penalty(grid, agent_positions, agent_status) > 0

----------------------------------------------------------------------------
(* Claims about the calls sharing a process *)

\* C9 (as claimed): what a call does (the path it takes, native or mock, and
\* the panic factor it applies) depends only on its own arguments and on the
\* configuration in force before the first call: it is what the same call
\* does when it is the first call of the process.
C9_CallsIndependent ==
    lastCall # NoCall =>
        /\ lastResult.path = Serve(initial_DEV_MODE, DefaultPanic, lastCall).path
        /\ lastResult.panic = Serve(initial_DEV_MODE, DefaultPanic, lastCall).panic

\* C10 (as claimed): an agent that has been marked evacuated stays out of
\* the integration: after every later iteration its position is the removal
\* sentinel and its velocity is zero.
C10_EvacuatedStayRemoved ==
    \A i \in evacuated : positions[i] = Sentinel /\ velocities[i] = <<0, 0>>

\* C11 (as claimed): the series safe_agents is cumulative: each entry is at
\* least the one before, and the latest entry is the number of agents
\* evacuated so far in the call, which is at most num_agents.
C11_SafeAgentsCumulative ==
    microPc # "idle" =>
        /\ \A k \in 1 .. Len(safe_agents) - 1 : safe_agents[k] <= safe_agents[k + 1]
        /\ Len(safe_agents) > 0 => safe_agents[Len(safe_agents)] = Cardinality(evacuated)
        /\ Cardinality(evacuated) <= simArgs.num_agents

\* The domain of the room: [0, 20 m] x [0, 20 m]
InDomain(p) == 0 <= p[1] /\ p[1] <= 20000 /\ 0 <= p[2] /\ p[2] <= 20000

\* C12 (as claimed): at every time step every agent that has not been
\* evacuated is inside the domain.
C12_ActiveAgentsInDomain ==
    \A i \in DOMAIN positions : i \notin evacuated => InDomain(positions[i])

\* The total mass of a distribution: the sum of f over the directions and
\* the cells (1/1000000)
TotalMass(f, N) == FieldSum(Density(f), N)

\* C13 (as claimed): no step of the mesoscopic solver increases the total
\* mass: each recorded total is at most the one before it, and the mass at
\* the end of the latest step is at most the last recorded total (0.001 is
\* allowed for the rounding of the arithmetic).
C13_NoStepIncreasesMass ==
    mesoPc # "idle" =>
        /\ \A k \in 1 .. Len(total_occupancy) - 1 :
              total_occupancy[k + 1] <= total_occupancy[k] + 1000
        /\ Len(total_occupancy) > 0 =>
              TotalMass(f_dist, mesoArgs.grid_size)
                  <= total_occupancy[Len(total_occupancy)] + 1000

\* C14 (as claimed): in a scenario with exits and a positive initial mass,
\* when the 100 steps are over the total mass is strictly between 0 and the
\* initial mass, and the recorded velocity has a magnitude of at most 1 in
\* every cell.
C14_MassDecreasesTowardExits ==
    (/\ mesoPc = "returned"
     /\ mesoArgs.exits # <<>>
     /\ total_occupancy[1] > 0) =>
        /\ 0 < TotalMass(f_dist, mesoArgs.grid_size)
        /\ TotalMass(f_dist, mesoArgs.grid_size) < total_occupancy[1]
        /\ \A t \in DOMAIN velocity_x_history : \A c \in Cells(mesoArgs.grid_size) :
              velocity_x_history[t][c] * velocity_x_history[t][c]
                + velocity_y_history[t][c] * velocity_y_history[t][c] <= 1000000

\* C15: at the end of every step the distribution is zero in every wall
\* cell for each of the 8 directions, and the recorded density is zero in
\* the wall cells at every recorded step, the first one included.
C15_WallCellsEmpty ==
    mesoPc # "idle" =>
        \A c \in WallCells(mesoArgs) :
            /\ \A k \in 1 .. 8 : f_dist[k][c] = 0
            /\ \A t \in DOMAIN density_history : density_history[t][c] = 0

\* Steps have been taken and recorded in a room where a cluster of the
\* initial positions lies on a wall cell.
C15_Witness ==
    /\ mesoPc = "loop"
    /\ meso_t >= 2
    /\ \E c \in WallCells(mesoArgs) :
          /\ InitialDensity(mesoArgs)[c] > 0
          /\ density_history[1][c] = 0
          /\ density_history[2][c] = 0

\* A float that is >= 0: a number that is not negative, or +infinity
NonNegative(a) == (a.k = "num" /\ a.v >= 0) \/ (a.k = "inf" /\ a.v > 0)

\* C16 (as claimed): in both field solvers the density is >= 0 in every cell
\* at every time step, in every recorded snapshot and in the state at the
\* end of every step.
C16_DensityNonNegative ==
    /\ mesoPc # "idle" =>
          /\ \A c \in Cells(mesoArgs.grid_size) : Density(f_dist)[c] >= 0
          /\ \A t \in DOMAIN density_history : \A c \in Cells(mesoArgs.grid_size) :
                density_history[t][c] >= 0
    /\ macroPc # "idle" =>
          /\ \A c \in Cells(macroArgs.grid_resolution) : NonNegative(macro_density[c])
          /\ \A t \in DOMAIN macro_density_history : \A c \in Cells(macroArgs.grid_resolution) :
                NonNegative(macro_density_history[t][c])

\* C17 (as claimed): in the macroscopic solver the density is 0 on every
\* wall cell, in the state after every update and in every recorded
\* snapshot, the initial one included.
C17_NoDensityOnWalls ==
    macroPc # "idle" =>
        \A c \in wall_mask :
            /\ macro_t >= 1 => macro_density[c] = Num(0)
            /\ \A t \in DOMAIN macro_density_history : macro_density_history[t][c] = Num(0)

\* The fire field at step s (s = 0 is the recorded initial field): the
\* recorded fields, then the current one
FireAt(s) == IF s < Len(fire_history) THEN fire_history[s + 1] ELSE fire_field

\* C18 (as claimed): the fire field evolves only in the first half of the
\* horizon: up to the midpoint T/2 it does not decrease in any cell from one
\* step to the next, and at every step after the midpoint it equals its value
\* at the midpoint.
C18_FireFrozenAfterMidpoint ==
    macroPc # "idle" =>
        \A s \in 1 .. macro_t : \A c \in Cells(macroArgs.grid_resolution) :
            IF s <= macroArgs.time_steps \div 2
            THEN FireAt(s)[c] >= FireAt(s - 1)[c]
            ELSE FireAt(s)[c] = FireAt(macroArgs.time_steps \div 2)[c]

\* a <= b + 0.05 for two floats (false when one of them is NaN)
FLeq(a, b) ==
    /\ a.k # "nan" /\ b.k # "nan"
    /\ \/ a.k = "num" /\ b.k = "num" /\ a.v <= b.v + 50
       \/ a.k = "inf" /\ a.v < 0
       \/ b.k = "inf" /\ b.v > 0

\* C19 (as claimed): from the first recorded step at which an exit cell holds
\* density, the total mass does not increase from one recorded step to the
\* next.
C19_MassNonIncreasingAfterContact ==
    macroPc # "idle" =>
        \A t \in 1 .. Len(macro_density_history) - 1 :
            (\E u \in 1 .. t : \E c \in exit_field : macro_density_history[u][c] # Num(0)) =>
                FLeq(FFieldSum(macro_density_history[t + 1], macroArgs.grid_resolution),
                     FFieldSum(macro_density_history[t], macroArgs.grid_resolution))

\* C20 (as claimed): no cell is both a wall cell and an exit cell, in the
\* wall mask and the exit field of the macroscopic solver and in the wall
\* channel and the exit channel of the observation of the RL environment.
C20_WallAndExitDisjoint ==
    /\ macroPc # "idle" => wall_mask \cap exit_field = {}
    /\ \A c \in Cells(scenario.grid_size) :
          ~ (/\ _get_state(scenario, grid).walls[c] = 1000
             /\ _get_state(scenario, grid).exits[c] = 1000)

\* C29 (as claimed): the dx of the divergence and Laplacian stencils is the
\* cell size 1 / grid_resolution that scaled the initial density, whatever
\* the walls of the scenario; it is not zero.
C29_SpatialStepFixed ==
    macroPc # "idle" =>
        /\ macro_dx = <<1, macroArgs.grid_resolution>>
        /\ macro_dx[1] # 0

\* C30: after reset() and after every step() the agent channel of the grid
\* holds in each cell the number of active agents standing on it; its total
\* is num_agents minus the number of evacuated agents.
C30_AgentChannelCountsActive ==
    /\ \A c \in Cells(scenario.grid_size) :
          grid.agents[c] = Cardinality({i \in Agents(scenario) :
                                           agent_status[i] = 0 /\ agent_positions[i] = c})
    /\ FieldSum(grid.agents, scenario.grid_size)
          = scenario.num_agents - Evacuated(agent_status)

\* A step has left one agent evacuated and another one active, and the
\* cell of the evacuated agent holds no count for it.
C30_Witness ==
    /\ lastOp = "step"
    /\ \E i, j \in Agents(scenario) :
          /\ agent_status[i] = 1
          /\ agent_status[j] = 0
          /\ agent_positions[i] # agent_positions[j]
          /\ grid.agents[agent_positions[i]] = 0
          /\ grid.agents[agent_positions[j]] >= 1

\* C21 (as claimed): every exit of the scenario marks at least the cell it is
\* mapped to, clamped into the grid, in the exit field of the macroscopic
\* solver and in the exit channel of the RL observation; this includes an
\* exit on the far boundary x = 20 or y = 20.
C21_ExitMarksItsCell ==
    /\ macroPc # "idle" =>
          \A j \in DOMAIN macroArgs.exits :
              ClampedCell(macroArgs.exits[j][1], macroArgs.exits[j][2],
                          macroArgs.grid_resolution) \in exit_field
    /\ \A j \in DOMAIN scenario.exits :
          _get_state(scenario, grid).exits[
              ClampedCell(scenario.exits[j][1], scenario.exits[j][2], scenario.grid_size)] = 1000

\* C22 (as claimed): the hazard value of a cell is the sum of the
\* contributions intensity x (1 - d / r) of the hazards of the type that
\* cover it: in the initial fire field of the macroscopic solver (over the
\* hazards of type fire), in the hazard field of the mesoscopic solver and
\* in the hazard channel of the RL grid.
C22_HazardsAdditive ==
    /\ macroPc # "idle" =>
          \A c \in Cells(macroArgs.grid_resolution) :
              FireAt(0)[c] = SumSeq([i \in DOMAIN macroArgs.hazards |->
                  IF macroArgs.hazards[i].type = "fire"
                  THEN 1000 * HazardAt([grid_size |-> macroArgs.grid_resolution],
                                       macroArgs.hazards[i], c)
                  ELSE 0])
    /\ mesoPc # "idle" =>
          \A c \in Cells(mesoArgs.grid_size) :
              hazard_field(mesoArgs)[c] = SumSeq([i \in DOMAIN mesoArgs.hazards |->
                  HazardAt(mesoArgs, mesoArgs.hazards[i], c)])
    /\ \A c \in Cells(scenario.grid_size) :
          grid.hazards[c] = SumSeq([i \in DOMAIN scenario.hazards |->
              HazardAt(scenario, scenario.hazards[i], c)])

\* C23 (as claimed): no entry point accepts a scenario without exits: an RL
\* environment that has been constructed and reset has at least one exit,
\* and so has every scenario for which a microscopic, mesoscopic or
\* macroscopic solver has produced state.
C23_ZeroExitsRejected ==
    /\ scenario.exits # <<>>
    /\ microPc # "idle" => simArgs.exits # <<>>
    /\ mesoPc # "idle" => mesoArgs.exits # <<>>
    /\ macroPc # "idle" => macroArgs.exits # <<>>

\* C24 (as claimed): a macroscopic run requested with grid_resolution > 200
\* or time_steps > 150 returns a mock envelope (mock_data = true) that
\* reports the sizes capped to 200 and 150 and whose tensors have the
\* reported dimensions.
C24_OversizeMacroIsMocked ==
    /\ lastCall.kind \in {"on_post_macroscopic", "MacroscopicModel_simulate"}
    /\ lastResult.status = "ok"
    /\ lastCall.grid > 200 \/ lastCall.time_steps > 150
    => /\ envelope.mock_data
       /\ envelope.reported = [grid |-> Min(lastCall.grid, 200),
                               time_steps |-> Min(lastCall.time_steps, 150)]
       /\ envelope.dims = <<envelope.reported.time_steps, envelope.reported.grid,
                            envelope.reported.grid>>

\* C25 (as claimed): the envelope a solver returns in mock mode has, apart
\* from the mock_data flag, the slots of the envelope its native path
\* returns for the same sizes (dt included), and tensors of the same
\* dimensions.
C25_MockEnvelopeHasNativeShape ==
    lastResult # NoCall /\ lastResult.path = "mock" =>
        /\ envelope.slots \ {"mock_data"} = NativeResults(lastCall).slots
        /\ envelope.dims = NativeResults(lastCall).dims

\* C26 (as claimed): in every mock result of the microscopic and macroscopic
\* solvers the cumulative series of evacuated people never decreases and
\* ends at no more than 0.9 x the initial mass of the run (num_agents, or
\* the sum of the initial density).
C26_MockConservation ==
    /\ lastResult # NoCall
    /\ lastResult.path = "mock"
    /\ lastCall.kind \in {"on_post_microscopic", "SocialForceModel_simulate",
                          "on_post_macroscopic", "MacroscopicModel_simulate"}
    => /\ \A k \in 1..(Len(envelope.evacuated) - 1) :
              envelope.evacuated[k] <= envelope.evacuated[k + 1]
       /\ 10 * envelope.evacuated[Len(envelope.evacuated)] <= 9 * envelope.mass

\* C27 (as claimed): the Mock Oracle is pure and deterministic: a call that
\* takes the mock path leaves DEV_MODE and the panic factor of the
\* microscopic model as they were, and when the same call with the same
\* arguments is served by the mock path twice in a row the two envelopes
\* are equal.
C27_MockIsPure ==
    [][ (lastResult' # NoCall /\ lastResult'.path = "mock") =>
            /\ DEV_MODE' = DEV_MODE
            /\ panic_factor' = panic_factor
            /\ (lastCall' = lastCall /\ lastResult.path = "mock") => envelope' = envelope
      ]_vars

\* C28: every iteration of a native run performs its operations in the
\* order given.  Mesoscopic: the fields of the distribution the step starts
\* from are recorded, then the distribution goes through the collision, the
\* hazard influence, the exit attraction, the streaming step and the zeroing
\* of the wall cells.  Macroscopic: the density, the velocity and the fire
\* field the step starts from are recorded, then the fire field is updated,
\* then the density is updated from the divergence, the Laplacian, the
\* evacuation and the updated fire field, clamped at zero and zeroed on the
\* wall cells.  A step is complete before the next one starts: the loop
\* counter advances by one and the histories hold one entry per step.
C28_StepOrder ==
    [][ /\ (mesoPc = "loop" /\ meso_t' # meso_t) =>
              /\ density_history' = Append(density_history, Density(f_dist))
              /\ velocity_x_history' = Append(velocity_x_history, VelocityField(f_dist, 1))
              /\ velocity_y_history' = Append(velocity_y_history, VelocityField(f_dist, 2))
              /\ \E f1 \in {Collide(f_dist, Density(f_dist))} :
                 \E f2 \in {_add_hazard_influence(f1, hazard_field(mesoArgs), Density(f1),
                                                  mesoArgs.grid_size)} :
                 \E f3 \in {_calculate_exit_attraction(f2, exit_potential(mesoArgs),
                                                       mesoArgs.grid_size)} :
                 \E f4 \in {_streaming_step(f3, mesoArgs.grid_size)} :
                    /\ f_dist' = [i \in DOMAIN f4 |-> [c \in DOMAIN f4[i] |->
                                     IF c \in WallCells(mesoArgs) THEN 0 ELSE f4[i][c]]]
              /\ meso_t' = meso_t + 1
              /\ Len(density_history') = meso_t'
        /\ (macroPc = "loop" /\ macro_t' # macro_t) =>
              /\ macro_density_history' = Append(macro_density_history, macro_density)
              /\ macro_velocity_history' = Append(macro_velocity_history, macro_velocity)
              /\ fire_history' = Append(fire_history, fire_field)
              /\ fire_field' = update_fire_field(fire_field, wall_mask,
                                                 macroArgs.grid_resolution)
              /\ \A c \in Cells(macroArgs.grid_resolution) :
                    macro_density'[c] =
                        IF c \in wall_mask THEN Num(0)
                        ELSE DensityNew(macro_density, macro_velocity, fire_field',
                                        exit_field, macro_dx, macroArgs.grid_resolution, c)
              /\ macro_t' = macro_t + 1
              /\ Len(macro_density_history') = macro_t'
      ]_vars

\* A mesoscopic run with walls, exits and a hazard has returned after all
\* its steps, and a macroscopic run with a wall, an exit and a burning fire
\* has made at least two steps.
C28_Witness ==
    /\ mesoPc = "returned"
    /\ Len(density_history) = mesoArgs.time_steps
    /\ mesoArgs.walls # <<>> /\ mesoArgs.exits # <<>> /\ mesoArgs.hazards # <<>>
    /\ macroPc = "loop"
    /\ macro_t >= 2
    /\ wall_mask # {} /\ exit_field # {}
    /\ \E c \in Cells(macroArgs.grid_resolution) :
          /\ fire_history[1][c] > 0
          /\ fire_history[2][c] > fire_history[1][c]

====
